---- MODULE Spec2Model ----
(***************************************************************************)
(* GEO backend: conversation upload, brand-mention extraction, visibility  *)
(* scoring, trend and brand registry, modelled over a transactional store. *)
(*                                                                         *)
(* Text is a sequence of one-character strings.  Times are counted in     *)
(* half days (DayLen half days make timedelta(days=1)).  Real-valued       *)
(* scores are fixed-point integers: Scale stands for 1.0; stored scores    *)
(* carry two decimals and are integers in hundredths.                      *)
(***************************************************************************)
EXTENDS Integers, Sequences, FiniteSets, TLC

VARIABLES
    now,            \* datetime.utcnow(), in half days
    brands,         \* table brands, in id order
    groups,         \* table competitor_groups, in id order
    groupBrands,    \* table competitor_group_brands: set of <<group_id, brand_id>>
    conversations,  \* table conversations (committed rows)
    messages,       \* table messages (committed rows), in id order
    mentions,       \* table brand_mentions (committed rows), in id order
    scores,         \* table visibility_scores, in id order
    resp,           \* the response of the last request handled
    fnIn,           \* argument(s) of the pure function under check
    fnOut,          \* its result(s)
    citations,      \* table citations, in id order
    sources,        \* table citation_sources, in id order
    analyses        \* table website_analyses, in id order

vars == << now, brands, groups, groupBrands, conversations, messages, mentions,
           scores, citations, sources, analyses, resp, fnIn, fnOut >>

dbVars == << brands, groups, groupBrands, conversations, messages, mentions, scores >>

citVars == << citations, sources, analyses >>


----------------------------------------------------------------------------
(* Bounds of the model *)

MaxNameLen == 2     \* longest name given to normalize_name
MaxSegs == 3        \* most segments a domain given to normalize_domain is built of
MaxTime == 2        \* the clock stops here
MaxBatch == 2       \* most conversations in one upload
MaxScoreRows == 2   \* calculate_daily_scores is not called on a fuller table
MaxGroups == 1      \* most competitor groups
MaxTrendRows == 2   \* most visibility_scores rows the trend is computed over
MaxRankRows == 2    \* most visibility_scores rows get_ranking reads

----------------------------------------------------------------------------
(* Python str operations *)

UpperLetters == <<"A", "B", "C", "D", "E", "F", "G", "H", "I", "J", "K", "L", "M", "N", "O", "P", "Q", "R", "S", "T", "U", "V", "W", "X", "Y", "Z">>
LowerLetters == <<"a", "b", "c", "d", "e", "f", "g", "h", "i", "j", "k", "l", "m", "n", "o", "p", "q", "r", "s", "t", "u", "v", "w", "x", "y", "z">>
Digits == {"0", "1", "2", "3", "4", "5", "6", "7", "8", "9"}

Range(s) == { s[i] : i \in 1..Len(s) }

\* the characters the pattern [a-z0-9] matches
LowerAlnum == Range(LowerLetters) \cup Digits

\* the characters [A-Z]
UpperAlpha == Range(UpperLetters)

\* str.lower() of one character.  "I_dot" is U+0130 (capital I with dot
\* above), whose lower case is the two code points "i" + U+0307
\* ("dot_above"); every other character maps to one character.
LowerChar(c) ==
    IF c \in UpperAlpha
    THEN << LowerLetters[CHOOSE i \in 1..Len(UpperLetters) : UpperLetters[i] = c] >>
    ELSE IF c = "I_dot" THEN << "i", "dot_above" >>
    ELSE << c >>

\* str.lower()
RECURSIVE Lower(_)
Lower(s) == IF s = << >> THEN << >> ELSE LowerChar(Head(s)) \o Lower(Tail(s))

Whitespace == {" ", "\t", "\n"}

\* str.strip()
RECURSIVE LStrip(_)
LStrip(s) == IF s # << >> /\ Head(s) \in Whitespace THEN LStrip(Tail(s)) ELSE s

RECURSIVE RStrip(_)
RStrip(s) ==
    IF s # << >> /\ s[Len(s)] \in Whitespace THEN RStrip(SubSeq(s, 1, Len(s) - 1)) ELSE s

Strip(s) == RStrip(LStrip(s))

\* str.startswith(prefix)
StartsWith(s, prefix) ==
    Len(s) >= Len(prefix) /\ SubSeq(s, 1, Len(prefix)) = prefix

\* s[start:end] for 0 <= start, 0 <= end (Python slice, clipped to the string)
Slice(s, start, end) ==
    LET e == IF end > Len(s) THEN Len(s) ELSE end
    IN  IF start >= e THEN << >> ELSE SubSeq(s, start + 1, e)

\* sub occurs in s at 0-based offset p
OccursAt(s, sub, p) ==
    p + Len(sub) <= Len(s) /\ SubSeq(s, p + 1, p + Len(sub)) = sub

\* str.find(sub): the lowest offset at which sub occurs, -1 when there is none
Find(s, sub) ==
    LET hits == { p \in 0..Len(s) : OccursAt(s, sub, p) }
    IN  IF hits = {} THEN -1 ELSE CHOOSE p \in hits : \A q \in hits : p <= q

\* sub in s
Contains(s, sub) == Find(s, sub) >= 0

\* re.sub(r'[^a-z0-9]', '', s)
StripNonAlnum(s) == SelectSeq(s, LAMBDA c : c \in LowerAlnum)

----------------------------------------------------------------------------
(* Normalizer *)

normalize_brand_name_NoLower(name) == StripNonAlnum(name)

\* tracking/service.py normalize_brand_name
normalize_brand_name(name) == StripNonAlnum(Lower(name))

\* analysis/service.py normalize_name
normalize_name(name) == StripNonAlnum(Lower(name))

\* citation/service.py normalize_domain
normalize_domain(domain) ==
    LET d == Strip(Lower(domain))
    IN  IF StartsWith(d, <<"w", "w", "w", ".">>) THEN Slice(d, 4, Len(d)) ELSE d

----------------------------------------------------------------------------
(* Inputs of the pure functions *)

RECURSIVE SeqsUpTo(_, _)
SeqsUpTo(S, n) ==
    IF n = 0 THEN { << >> }
    ELSE LET shorter == SeqsUpTo(S, n - 1)
         IN  shorter \cup { Append(s, c) : s \in shorter, c \in S }

NameChars == {"a", "A", "1", "-", "I_dot"}
Names == SeqsUpTo(NameChars, MaxNameLen)

RECURSIVE Concat(_)
Concat(ss) == IF ss = << >> THEN << >> ELSE Head(ss) \o Concat(Tail(ss))

DomainSegs == { <<"w", "w", "w", ".">>, <<"W", "w", "w", ".">>, <<" ">>, <<"a", ".", "i", "o">> }
Domains == { Concat(ss) : ss \in SeqsUpTo(DomainSegs, MaxSegs) }

----------------------------------------------------------------------------
(* Enumerations (tracking/models.py) *)

T_user == <<"u", "s", "e", "r">>
T_assistant == <<"a", "s", "s", "i", "s", "t", "a", "n", "t">>
T_system == <<"s", "y", "s", "t", "e", "m">>
T_chatgpt == <<"c", "h", "a", "t", "g", "p", "t">>
T_claude == <<"c", "l", "a", "u", "d", "e">>
T_perplexity == <<"p", "e", "r", "p", "l", "e", "x", "i", "t", "y">>
T_gemini == <<"g", "e", "m", "i", "n", "i">>
T_other == <<"o", "t", "h", "e", "r">>

\* class Platform
Platform == { T_chatgpt, T_claude, T_perplexity, T_gemini, T_other }

\* class MessageRole
MessageRole == { T_user, T_assistant, T_system }

\* class MentionType
MentionType == { "direct", "indirect", "comparison", "recommendation", "negative" }

ParsePlatform_NoDefault(p) == Lower(p)

\* Platform(item.platform.lower()), ValueError -> Platform.OTHER
ParsePlatform(p) == IF Lower(p) \in Platform THEN Lower(p) ELSE T_other

\* MessageRole(msg_item.role.lower()), ValueError -> MessageRole.USER
ParseRole(r) == IF Lower(r) \in MessageRole THEN Lower(r) ELSE T_user

\* A timestamp string of a request is [kind |-> "iso", t |-> time] when
\* fromisoformat accepts it, [kind |-> "bad", t |-> 0] when fromisoformat
\* raises ValueError, and [kind |-> "none", t |-> 0] when it is absent.
IsoOk(ts) == ts.kind = "iso"

\* datetime.fromisoformat(ts.replace('Z', '+00:00')) of a well-formed string
ParseIso(ts) == ts.t

----------------------------------------------------------------------------
(* Table helpers *)

Max(S) == CHOOSE x \in S : \A y \in S : y <= x

\* the id an INTEGER PRIMARY KEY column gives the next inserted row
NextId(table) ==
    IF table = << >> THEN 1 ELSE Max({ table[i].id : i \in 1..Len(table) }) + 1

Rows(table) == { table[i] : i \in 1..Len(table) }

\* floor(a * b / c) for a, b >= 0, c > 0 without leaving 32 bits
\* (b is a product of two factors of at most 1000)
MulDiv(a, b1, b2, c) ==
    LET q == a \div c
        r == a % c
        q1 == (r * b1) \div c
        r1 == (r * b1) % c
    IN  q * b1 * b2 + q1 * b2 + (r1 * b2) \div c

\* n / d rounded to the nearest integer, halves away from zero (d > 0)
RoundDiv(n, d) ==
    IF n >= 0 THEN (2 * n + d) \div (2 * d) ELSE -((2 * (-n) + d) \div (2 * d))

----------------------------------------------------------------------------
(* Mention Extractor (tracking/service.py) *)

recommend_patterns ==
    << <<"r", "e", "c", "o", "m", "m", "e", "n", "d">>,
       <<"s", "u", "g", "g", "e", "s", "t">>,
       <<"t", "r", "y">>,
       <<"c", "o", "n", "s", "i", "d", "e", "r">>,
       <<"b", "e", "s", "t">>,
       <<"t", "o", "p", " ", "p", "i", "c", "k">>,
       <<"g", "r", "e", "a", "t", " ", "c", "h", "o", "i", "c", "e">>,
       <<"h", "i", "g", "h", "l", "y", " ", "r", "a", "t", "e", "d">> >>

compare_patterns ==
    << <<"c", "o", "m", "p", "a", "r", "e", "d", " ", "t", "o">>,
       <<"v", "e", "r", "s", "u", "s">>,
       <<"v", "s">>,
       <<"b", "e", "t", "t", "e", "r", " ", "t", "h", "a", "n">>,
       <<"w", "o", "r", "s", "e", " ", "t", "h", "a", "n">>,
       <<"s", "i", "m", "i", "l", "a", "r", " ", "t", "o">>,
       <<"a", "l", "t", "e", "r", "n", "a", "t", "i", "v", "e", " ", "t", "o">>,
       <<"l", "i", "k", "e">> >>

negative_patterns ==
    << <<"n", "o", "t", " ", "r", "e", "c", "o", "m", "m", "e", "n", "d">>,
       <<"a", "v", "o", "i", "d">>,
       <<"i", "s", "s", "u", "e">>,
       <<"p", "r", "o", "b", "l", "e", "m">>,
       <<"b", "a", "d">>,
       <<"p", "o", "o", "r">>,
       <<"d", "i", "s", "a", "p", "p", "o", "i", "n", "t", "i", "n", "g">>,
       <<"d", "o", "n", "'", "t">> >>

\* any(p in context for p in patterns)
AnyIn(patterns, context) == \E i \in 1..Len(patterns) : Contains(context, patterns[i])

classify_mention_Window100(content, position, brand_name) ==
    LET start == IF position - 100 > 0 THEN position - 100 ELSE 0
        end == IF position + Len(brand_name) + 100 < Len(content)
               THEN position + Len(brand_name) + 100 ELSE Len(content)
        context == Lower(Slice(content, start, end))
    IN  IF AnyIn(recommend_patterns, context) THEN "recommendation"
        ELSE IF AnyIn(compare_patterns, context) THEN "comparison"
        ELSE IF AnyIn(negative_patterns, context) THEN "negative"
        ELSE "direct"

\* TrackingService._classify_mention
classify_mention(content, position, brand_name) ==
    LET start == IF position - 50 > 0 THEN position - 50 ELSE 0
        end == IF position + Len(brand_name) + 50 < Len(content)
               THEN position + Len(brand_name) + 50 ELSE Len(content)
        context == Lower(Slice(content, start, end))
    IN  IF AnyIn(recommend_patterns, context) THEN "recommendation"
        ELSE IF AnyIn(compare_patterns, context) THEN "comparison"
        ELSE IF AnyIn(negative_patterns, context) THEN "negative"
        ELSE "direct"

\* names_to_check = [brand.name] + json.loads(brand.aliases)
names_to_check(brand) == << brand.name >> \o brand.aliases

\* pos = content_lower.find(name_lower)
FindName(content, name) == Find(Lower(content), Lower(name))

\* the first name of names_to_check found in the message (0 when none is):
\* the loop over names_to_check up to its break
FirstNameFound(content, names) ==
    LET found == { i \in 1..Len(names) : FindName(content, names[i]) >= 0 }
    IN  IF found = {} THEN 0 ELSE CHOOSE i \in found : \A j \in found : i <= j

\* the BrandMention built for one (message, brand) pair that matched
NewMention(id, conv_id, db_msg, brand, name, t) ==
    LET pos == FindName(db_msg.content, name)
        start == IF pos - 100 > 0 THEN pos - 100 ELSE 0
        end == IF pos + Len(name) + 100 < Len(db_msg.content)
               THEN pos + Len(name) + 100 ELSE Len(db_msg.content)
    IN  [ id |-> id,
          conversation_id |-> conv_id,
          message_id |-> db_msg.id,
          brand_name |-> brand.name,
          brand_normalized |-> brand.normalized_name,
          mention_type |-> classify_mention(db_msg.content, pos, name),
          position |-> pos,
          context |-> Slice(db_msg.content, start, end),
          sentiment |-> 0,
          created_at |-> t ]

\* the inner loop "for brand in brands" for one message: the mentions table
\* after the brands bs[k..] were tried
RECURSIVE ExtractBrands(_, _, _, _, _, _)
ExtractBrands(tbl, conv_id, db_msg, bs, k, t) ==
    IF k > Len(bs) THEN tbl
    ELSE LET names == names_to_check(bs[k])
             i == FirstNameFound(db_msg.content, names)
             next == IF i = 0 THEN tbl
                     ELSE Append(tbl, NewMention(NextId(tbl), conv_id, db_msg, bs[k], names[i], t))
         IN  ExtractBrands(next, conv_id, db_msg, bs, k + 1, t)

\* the outer loop "for db_msg in db_messages"
RECURSIVE ExtractMessages(_, _, _, _, _, _)
ExtractMessages(tbl, conv_id, msgs, k, bs, t) ==
    IF k > Len(msgs) THEN tbl
    ELSE ExtractMessages(ExtractBrands(tbl, conv_id, msgs[k], bs, 1, t),
                         conv_id, msgs, k + 1, bs, t)

extract_mentions_AnyRole(mentionTbl, messageTbl, brandTbl, conv_id, t) ==
    LET active == SelectSeq(brandTbl, LAMBDA b : b.is_active)
        db_messages == SelectSeq(messageTbl, LAMBDA m : m.conversation_id = conv_id)
    IN  IF active = << >> THEN mentionTbl
        ELSE ExtractMessages(mentionTbl, conv_id, db_messages, 1, active, t)

\* TrackingService._extract_mentions: the mentions table after the call,
\* given the session's view of the messages table
extract_mentions(mentionTbl, messageTbl, brandTbl, conv_id, t) ==
    LET active == SelectSeq(brandTbl, LAMBDA b : b.is_active)
        db_messages == SelectSeq(messageTbl,
                         LAMBDA m : m.conversation_id = conv_id /\ m.role = T_assistant)
    IN  IF active = << >> THEN mentionTbl
        ELSE ExtractMessages(mentionTbl, conv_id, db_messages, 1, active, t)

----------------------------------------------------------------------------
(* Upload (tracking/service.py upload_conversations) *)

\* initial_query: the content[:500] of the first message whose role is "user"
InitialQuery(msgs) ==
    LET users == { i \in 1..Len(msgs) : msgs[i].role = T_user }
    IN  IF users = {} THEN << >>
        ELSE Slice(msgs[CHOOSE i \in users : \A j \in users : i <= j].content, 0, 500)

\* msg_timestamp: the message's timestamp when present and well formed,
\* else captured_at
MsgTimestamp(ts, captured_at) ==
    IF ts.kind # "none" /\ IsoOk(ts) THEN ParseIso(ts) ELSE captured_at

\* the loop "for seq, msg_item in enumerate(item.messages)": the session's
\* messages table after the messages k.. of the item were added
RECURSIVE AddMessages(_, _, _, _, _)
AddMessages(tbl, conv_id, msgs, k, captured_at) ==
    IF k > Len(msgs) THEN tbl
    ELSE AddMessages(
           Append(tbl, [ id |-> NextId(tbl),
                         conversation_id |-> conv_id,
                         role |-> ParseRole(msgs[k].role),
                         content |-> msgs[k].content,
                         sequence |-> k - 1,
                         timestamp |-> MsgTimestamp(msgs[k].timestamp, captured_at) ]),
           conv_id, msgs, k + 1, captured_at)

ItemFailed_NoRecord(acc, item, k, error, base) ==
    [ acc EXCEPT !.conversations = base.conversations,
                 !.messages = base.messages,
                 !.mentions = base.mentions ]

\* the except branch: the error is recorded and db.rollback() ends the
\* session's transaction, which holds every row flushed since the handler
\* began (the only commit is the one after the loop)
ItemFailed(acc, item, k, error, base) ==
    [ acc EXCEPT !.conversations = base.conversations,
                 !.messages = base.messages,
                 !.mentions = base.mentions,
                 !.errors = Append(@, [ index |-> k, id |-> item.id, error |-> error ]) ]

\* the try block of an item whose captured_at parsed and whose id is new to
\* the session: conversation, messages, flush, mentions, processed += 1
ItemStored(acc, item, brandTbl, t) ==
    LET captured_at == ParseIso(item.captured_at)
        conversation == [ id |-> item.id,
                          platform |-> ParsePlatform(item.platform),
                          initial_query |-> InitialQuery(item.messages),
                          captured_at |-> captured_at,
                          created_at |-> t ]
        msgTbl == AddMessages(acc.messages, item.id, item.messages, 1, captured_at)
        menTbl == extract_mentions(acc.mentions, msgTbl, brandTbl, item.id, t)
    IN  [ acc EXCEPT !.conversations = Append(@, conversation),
                     !.messages = msgTbl,
                     !.mentions = menTbl,
                     !.brand_mentions_found = @ + (Len(menTbl) - Len(acc.mentions)),
                     !.processed = @ + 1 ]

HasConversation(tbl, id) == \E i \in 1..Len(tbl) : tbl[i].id = id

\* conversations.id without its primary key: the flush never raises
upload_item_NoPrimaryKey(acc, item, k, base, brandTbl, t) ==
    IF ~IsoOk(item.captured_at)
    THEN ItemFailed(acc, item, k, "ValueError", base)
    ELSE ItemStored(acc, item, brandTbl, t)

upload_item_CountBeforeFlush(acc, item, k, base, brandTbl, t) ==
    IF ~IsoOk(item.captured_at)
    THEN ItemFailed(acc, item, k, "ValueError", base)
    ELSE IF HasConversation(acc.conversations, item.id)
    THEN ItemFailed([ acc EXCEPT !.processed = @ + 1 ], item, k, "IntegrityError", base)
    ELSE ItemStored(acc, item, brandTbl, t)

\* one iteration of "for item in items" (item k of the batch): the try
\* block and its except branch.  fromisoformat raises before anything is
\* added; db.flush() raises when the primary key conversations.id exists
upload_item(acc, item, k, base, brandTbl, t) ==
    IF ~IsoOk(item.captured_at)
    THEN ItemFailed(acc, item, k, "ValueError", base)
    ELSE IF HasConversation(acc.conversations, item.id)
    THEN ItemFailed(acc, item, k, "IntegrityError", base)
    ELSE ItemStored(acc, item, brandTbl, t)

RECURSIVE UploadLoop(_, _, _, _, _, _)
UploadLoop(acc, items, k, base, brandTbl, t) ==
    IF k > Len(items) THEN acc
    ELSE UploadLoop(upload_item(acc, items[k], k, base, brandTbl, t),
                    items, k + 1, base, brandTbl, t)

\* TrackingService.upload_conversations
upload_conversations(items) ==
    LET base == [ conversations |-> conversations, messages |-> messages,
                  mentions |-> mentions ]
        acc0 == [ conversations |-> conversations, messages |-> messages,
                  mentions |-> mentions,
                  processed |-> 0, brand_mentions_found |-> 0, errors |-> << >> ]
    IN  \E final \in { UploadLoop(acc0, items, 1, base, brands, now) } :
        /\ conversations' = final.conversations       \* db.commit()
        /\ messages' = final.messages
        /\ mentions' = final.mentions
        /\ resp' = [ op |-> "upload",
                     items |-> items,
                     received |-> Len(items),
                     processed |-> final.processed,
                     brand_mentions_found |-> final.brand_mentions_found,
                     errors |-> final.errors ]
        /\ UNCHANGED << citVars, now, brands, groups, groupBrands, scores, fnIn, fnOut >>

----------------------------------------------------------------------------
(* Brand registry (tracking/service.py, analysis/service.py) *)

UniqueViolation_NameOnly(brandTbl, name, normalized) ==
    \E i \in 1..Len(brandTbl) : brandTbl[i].name = name

\* the unique constraints of brands.name and brands.normalized_name
UniqueViolation(brandTbl, name, normalized) ==
    \E i \in 1..Len(brandTbl) :
        brandTbl[i].name = name \/ brandTbl[i].normalized_name = normalized

NewBrand(brandTbl, name, normalized, aliases, is_competitor) ==
    [ id |-> NextId(brandTbl),
      name |-> name,
      normalized_name |-> normalized,
      aliases |-> aliases,
      is_competitor |-> is_competitor,
      is_active |-> TRUE ]

\* TrackingService.register_brand: the INSERT of db.commit() fails on a
\* unique constraint and the exception leaves the handler
register_brand(name, aliases, is_competitor) ==
    LET normalized == normalize_brand_name(name)
    IN  /\ IF UniqueViolation(brands, name, normalized)
           THEN /\ brands' = brands
                /\ resp' = [ op |-> "register_brand", name |-> name,
                             error |-> "IntegrityError" ]
           ELSE /\ brands' = Append(brands,
                                NewBrand(brands, name, normalized, aliases, is_competitor))
                /\ resp' = [ op |-> "register_brand", name |-> name, error |-> "" ]
        /\ UNCHANGED << citVars, now, groups, groupBrands, conversations, messages, mentions,
                        scores, fnIn, fnOut >>

\* AnalysisService._get_or_create_brand on the session's view of brands:
\* the view after the call, the brand's id (0 when the call raises), and the
\* exception raised ("" when none)
get_or_create_brand(brandTbl, name, is_competitor) ==
    LET normalized == normalize_name(name)
        hits == { i \in 1..Len(brandTbl) : brandTbl[i].normalized_name = normalized }
    IN  IF Cardinality(hits) > 1
        THEN [ brands |-> brandTbl, id |-> 0, error |-> "MultipleResultsFound" ]
        ELSE IF hits # {}
        THEN [ brands |-> brandTbl, id |-> brandTbl[CHOOSE i \in hits : TRUE].id,
               error |-> "" ]
        ELSE IF UniqueViolation(brandTbl, name, normalized)
        THEN [ brands |-> brandTbl, id |-> 0, error |-> "IntegrityError" ]
        ELSE [ brands |-> Append(brandTbl,
                            NewBrand(brandTbl, name, normalized, << >>, is_competitor)),
               id |-> NextId(brandTbl), error |-> "" ]

\* the loop "for comp_name in competitor_names" of create_competitor_group
\* on the session's view [brands, links, error]
RECURSIVE AddCompetitors(_, _, _, _)
AddCompetitors(view, gid, names, k) ==
    IF k > Len(names) \/ view.error # "" THEN view
    ELSE LET got == get_or_create_brand(view.brands, names[k], TRUE)
         IN  IF got.error # ""
             THEN [ view EXCEPT !.error = got.error ]
             ELSE IF << gid, got.id >> \in view.links
             THEN \* the primary key (group_id, brand_id) exists
                  [ view EXCEPT !.error = "IntegrityError" ]
             ELSE AddCompetitors([ view EXCEPT !.brands = got.brands,
                                               !.links = @ \cup { << gid, got.id >> } ],
                                 gid, names, k + 1)

\* AnalysisService.create_competitor_group (owner_brand << >> is None)
create_competitor_group(owner_brand, competitor_names) ==
    LET owners == { i \in 1..Len(brands) :
                      brands[i].normalized_name = normalize_name(owner_brand) }
        owner_brand_id == IF owner_brand # << >> /\ owners # {}
                          THEN brands[CHOOSE i \in owners : TRUE].id ELSE 0
        gid == NextId(groups)
        view == AddCompetitors([ brands |-> brands, links |-> groupBrands, error |-> "" ],
                               gid, competitor_names, 1)
    IN  /\ IF view.error # ""
           THEN /\ UNCHANGED << brands, groups, groupBrands >>
                /\ resp' = [ op |-> "create_competitor_group", group_id |-> 0,
                             error |-> view.error ]
           ELSE /\ brands' = view.brands
                /\ groups' = Append(groups, [ id |-> gid, owner_brand_id |-> owner_brand_id ])
                /\ groupBrands' = view.links
                /\ resp' = [ op |-> "create_competitor_group", group_id |-> gid,
                             error |-> "" ]
        /\ UNCHANGED << citVars, now, conversations, messages, mentions, scores, fnIn, fnOut >>

\* AnalysisService.add_competitor_to_group
add_competitor_to_group(group_id, competitor_name) ==
    LET got == get_or_create_brand(brands, competitor_name, TRUE)
    IN  /\ IF ~\E i \in 1..Len(groups) : groups[i].id = group_id
           THEN /\ UNCHANGED << brands, groupBrands >>
                /\ resp' = [ op |-> "add_competitor_to_group", result |-> FALSE,
                             error |-> "" ]
           ELSE IF got.error # ""
           THEN /\ UNCHANGED << brands, groupBrands >>
                /\ resp' = [ op |-> "add_competitor_to_group", result |-> FALSE,
                             error |-> got.error ]
           ELSE IF << group_id, got.id >> \in groupBrands
           THEN \* already in the group: nothing is inserted, nothing committed
                /\ UNCHANGED << brands, groupBrands >>
                /\ resp' = [ op |-> "add_competitor_to_group", result |-> TRUE,
                             error |-> "" ]
           ELSE /\ brands' = got.brands
                /\ groupBrands' = groupBrands \cup { << group_id, got.id >> }
                /\ resp' = [ op |-> "add_competitor_to_group", result |-> TRUE,
                             error |-> "" ]
        /\ UNCHANGED << citVars, now, groups, conversations, messages, mentions, scores,
                        fnIn, fnOut >>

----------------------------------------------------------------------------
(* Visibility Calculator (tracking/calculator.py) *)

DayLen == 2         \* timedelta(days=1), in half days
Scale == 100000     \* the fixed-point value of 1.0

\* round(ln(n) * Scale) for n = 1..130
LnTable ==
    <<
       0, 69315, 109861, 138629, 160944, 179176, 194591, 207944, 219722, 230259,
       239790, 248491, 256495, 263906, 270805, 277259, 283321, 289037, 294444, 299573,
       304452, 309104, 313549, 317805, 321888, 325810, 329584, 333220, 336730, 340120,
       343399, 346574, 349651, 352636, 355535, 358352, 361092, 363759, 366356, 368888,
       371357, 373767, 376120, 378419, 380666, 382864, 385015, 387120, 389182, 391202,
       393183, 395124, 397029, 398898, 400733, 402535, 404305, 406044, 407754, 409434,
       411087, 412713, 414313, 415888, 417439, 418965, 420469, 421951, 423411, 424850,
       426268, 427667, 429046, 430407, 431749, 433073, 434381, 435671, 436945, 438203,
       439445, 440672, 441884, 443082, 444265, 445435, 446591, 447734, 448864, 449981,
       451086, 452179, 453260, 454329, 455388, 456435, 457471, 458497, 459512, 460517,
       461512, 462497, 463473, 464439, 465396, 466344, 467283, 468213, 469135, 470048,
       470953, 471850, 472739, 473620, 474493, 475359, 476217, 477068, 477912, 478749,
       479579, 480402, 481218, 482028, 482831, 483628, 484419, 485203, 485981, 486753
    >>

\* round(exp(-k) * Scale) for k = 0..5
ExpTable == << 100000, 36788, 13534, 4979, 1832, 674 >>

\* greatest common divisor of a >= 0 and b > 0
RECURSIVE Gcd(_, _)
Gcd(a, b) == IF a = 0 THEN b ELSE Gcd(b % a, a)

\* math.log1p(num / den) * Scale, for integers num >= 0, den > 0; the
\* argument is one float, the quotient, so the result is a function of the
\* fraction in lowest terms
Log1p(num, den) ==
    LET g == Gcd(num, den)
    IN  LnTable[(den + num) \div g] - LnTable[den \div g]

\* math.exp(-num / den) * Scale, for integers num >= 0, den > 0: the integer
\* part of the exponent by table, its fraction by the Taylor series
ExpNeg(num, den) ==
    LET k == num \div den
        r == num % den
        t1 == (Scale * r) \div den
        t2 == (t1 * r) \div (2 * den)
        t3 == (t2 * r) \div (3 * den)
        t4 == (t3 * r) \div (4 * den)
        t5 == (t4 * r) \div (5 * den)
        t6 == (t5 * r) \div (6 * den)
        frac == Scale - t1 + t2 - t3 + t4 - t5 + t6
    IN  IF k = 0 THEN frac
        ELSE IF k >= Len(ExpTable) THEN 0
        ELSE (ExpTable[k + 1] * (frac \div 100)) \div 1000

calculate_frequency_score_NoCap(mention_count, total_conversations) ==
    IF total_conversations = 0 THEN 0
    ELSE MulDiv(Log1p(10 * mention_count, total_conversations), 1000, 100, Log1p(10, 1))

\* VisibilityCalculator._calculate_frequency_score
calculate_frequency_score(mention_count, total_conversations) ==
    IF total_conversations = 0 THEN 0
    ELSE LET score == MulDiv(Log1p(10 * mention_count, total_conversations),
                             1000, 100, Log1p(10, 1))
         IN  IF score > Scale THEN Scale ELSE score

\* VisibilityCalculator._calculate_position_score; avg_position = sum / count
calculate_position_score(position_sum, count) ==
    LET score == ExpNeg(position_sum, 500 * count)
    IN  IF score < Scale \div 10 THEN Scale \div 10 ELSE score

\* VisibilityCalculator._calculate_sentiment_score; avg_sentiment = sum / count,
\* sentiments in hundredths
calculate_sentiment_score(sentiment_sum, count) ==
    (Scale * (sentiment_sum + 100 * count)) \div (200 * count)

\* TYPE_MULTIPLIERS, times ten
TYPE_MULTIPLIERS(mention_type) ==
    CASE mention_type = "recommendation" -> 15
      [] mention_type = "direct" -> 10
      [] mention_type = "comparison" -> 8
      [] mention_type = "indirect" -> 6
      [] mention_type = "negative" -> 3
      [] OTHER -> 10

RECURSIVE SumOver(_, _)
SumOver(f, S) ==
    IF S = {} THEN 0
    ELSE LET x == CHOOSE y \in S : TRUE IN f[x] + SumOver(f, S \ {x})

\* the mentions of a brand created in [start_date, end_date)
MentionsIn(brand_normalized, start_date, end_date) ==
    { m \in Rows(mentions) : /\ m.brand_normalized = brand_normalized
                             /\ m.created_at >= start_date
                             /\ m.created_at < end_date }

\* VisibilityCalculator._calculate_type_score
calculate_type_score(brand_normalized, start_date, end_date) ==
    LET ms == MentionsIn(brand_normalized, start_date, end_date)
        total_count == Cardinality(ms)
        weighted_sum == SumOver([ m \in ms |-> TYPE_MULTIPLIERS(m.mention_type) ], ms)
        score == (Scale * (weighted_sum - 3 * total_count)) \div (12 * total_count)
    IN  IF ms = {} THEN Scale \div 2
        ELSE IF score < 0 THEN 0 ELSE IF score > Scale THEN Scale ELSE score

\* the order of text keys: digits before letters
AlnumOrder == <<"0", "1", "2", "3", "4", "5", "6", "7", "8", "9">> \o LowerLetters
CharRank(c) ==
    IF c \in Range(AlnumOrder) THEN CHOOSE i \in 1..Len(AlnumOrder) : AlnumOrder[i] = c
    ELSE Len(AlnumOrder) + 1

RECURSIVE TextLess(_, _)
TextLess(a, b) ==
    IF b = << >> THEN FALSE
    ELSE IF a = << >> THEN TRUE
    ELSE IF CharRank(Head(a)) # CharRank(Head(b)) THEN CharRank(Head(a)) < CharRank(Head(b))
    ELSE TextLess(Tail(a), Tail(b))

\* the keys of a GROUP BY, in key order
RECURSIVE SortedKeys(_)
SortedKeys(S) ==
    IF S = {} THEN << >>
    ELSE LET lo == CHOOSE x \in S : \A y \in S \ {x} : TextLess(x, y)
         IN  << lo >> \o SortedKeys(S \ {lo})

\* select(Brand.name).where(Brand.normalized_name == bn).scalar() or bn
DisplayName(bn) ==
    LET hits == { i \in 1..Len(brands) : brands[i].normalized_name = bn }
    IN  IF hits = {} \/ brands[CHOOSE i \in hits : \A j \in hits : i <= j].name = << >>
        THEN bn
        ELSE brands[CHOOSE i \in hits : \A j \in hits : i <= j].name

\* the VisibilityScore built for one row of brand_stats
ScoreRow(id, bn, date, platform, total_conversations) ==
    LET ms == MentionsIn(bn, date, date + DayLen)
        mention_count == Cardinality(ms)
        position_sum == SumOver([ m \in ms |-> m.position ], ms)
        sentiment_sum == SumOver([ m \in ms |-> m.sentiment ], ms)
        frequency_score == calculate_frequency_score(mention_count, total_conversations)
        position_score == calculate_position_score(position_sum, mention_count)
        sentiment_score == calculate_sentiment_score(sentiment_sum, mention_count)
        type_score == calculate_type_score(bn, date, date + DayLen)
        weighted == 4 * frequency_score + 3 * position_score
                    + 2 * sentiment_score + type_score
        final_score == IF weighted > 10 * Scale THEN 10 * Scale
                       ELSE IF weighted < 0 THEN 0 ELSE weighted
    IN  [ id |-> id,
          brand_name |-> DisplayName(bn),
          brand_normalized |-> bn,
          date |-> date,
          platform |-> platform,
          score |-> RoundDiv(final_score, 100),
          mention_count |-> mention_count,
          avg_position |-> RoundDiv(100 * position_sum, mention_count),
          avg_sentiment |-> RoundDiv(sentiment_sum, mention_count),
          frequency_score |-> RoundDiv(frequency_score, 10),
          position_score |-> RoundDiv(position_score, 10),
          sentiment_score |-> RoundDiv(sentiment_score, 10),
          conversation_count |-> total_conversations,
          created_at |-> now ]

\* the loop over brand_stats: the visibility_scores table after the rows of
\* the keys k.. were added
RECURSIVE AddScores(_, _, _, _, _, _)
AddScores(tbl, keys, k, date, platform, total_conversations) ==
    IF k > Len(keys) THEN tbl
    ELSE AddScores(Append(tbl, ScoreRow(NextId(tbl), keys[k], date, platform,
                                        total_conversations)),
                   keys, k + 1, date, platform, total_conversations)

\* the count passed on as it is, 0 included
TotalConversations_NoFloor(counted) == counted

\* total_conversations = conv_result.scalar() or 1
TotalConversations(counted) == IF counted = 0 THEN 1 ELSE counted

calculate_daily_scores_Replace(date, platform) ==
    LET brand_stats == SortedKeys({ m.brand_normalized : m \in
                          { r \in Rows(mentions) : /\ r.created_at >= date
                                                   /\ r.created_at < date + DayLen } })
        counted == Cardinality({ c \in Rows(conversations) :
                                   /\ c.captured_at >= date
                                   /\ c.captured_at < date + DayLen })
        total_conversations == IF counted = 0 THEN 1 ELSE counted
        kept == SelectSeq(scores, LAMBDA r : r.date # date)
    IN  \E after \in { AddScores(kept, brand_stats, 1, date, platform,
                                  total_conversations) } :
        /\ scores' = IF brand_stats = << >> THEN scores ELSE after
        /\ resp' = [ op |-> "calculate_daily_scores",
                     date |-> date,
                     scores |-> IF brand_stats = << >> THEN << >>
                                ELSE SubSeq(after, Len(kept) + 1, Len(after)) ]
        /\ UNCHANGED << citVars, now, brands, groups, groupBrands, conversations, messages,
                        mentions, fnIn, fnOut >>

\* VisibilityCalculator.calculate_daily_scores (platform << >> is None)
calculate_daily_scores(date, platform) ==
    LET start_date == date
        end_date == date + DayLen
        brand_stats == SortedKeys({ m.brand_normalized : m \in
                          { r \in Rows(mentions) : /\ r.created_at >= start_date
                                                   /\ r.created_at < end_date } })
        counted == Cardinality({ c \in Rows(conversations) :
                                   /\ c.captured_at >= start_date
                                   /\ c.captured_at < end_date })
        total_conversations == TotalConversations(counted)
    IN  \E after \in { AddScores(scores, brand_stats, 1, date, platform,
                                  total_conversations) } :
        /\ scores' = IF brand_stats = << >> THEN scores ELSE after
        /\ resp' = [ op |-> "calculate_daily_scores",
                     date |-> date,
                     scores |-> IF brand_stats = << >> THEN << >>
                                ELSE SubSeq(after, Len(scores) + 1, Len(after)) ]
        /\ UNCHANGED << citVars, now, brands, groups, groupBrands, conversations, messages,
                        mentions, fnIn, fnOut >>

----------------------------------------------------------------------------
(* Trend Engine (tracking/calculator.py) *)

\* func.avg(VisibilityScore.score) over a set of rows, as the fraction
\* sum / count; "scalar() or 0" makes the average of no rows 0
AvgScore(rows) ==
    IF rows = {} THEN [ sum |-> 0, count |-> 1 ]
    ELSE [ sum |-> SumOver([ r \in rows |-> r.score ], rows), count |-> Cardinality(rows) ]

\* the change and direction of _calculate_trend from the two averages
\* (each a fraction sum / count of scores in hundredths); change is N / D
\* as the fraction n / d; it is returned rounded to one decimal, in tenths
TrendChange(cur, prev) ==
    IF prev.sum > 0
    THEN [ n |-> 100 * (cur.sum * prev.count - prev.sum * cur.count),
           d |-> prev.sum * cur.count ]
    ELSE [ n |-> IF cur.sum > 0 THEN 100 ELSE 0, d |-> 1 ]

trend_direction_Inclusive(cur, prev) ==
    LET change == TrendChange(cur, prev)
    IN  [ direction |-> IF change.n >= 5 * change.d THEN "up"
                        ELSE IF change.n <= -5 * change.d THEN "down"
                        ELSE "stable",
          change |-> RoundDiv(10 * change.n, change.d) ]

\* "Calculate change" and "Determine direction" of _calculate_trend, and
\* round(change, 1)
trend_direction(cur, prev) ==
    LET change == TrendChange(cur, prev)
    IN  [ direction |-> IF change.n > 5 * change.d THEN "up"
                        ELSE IF change.n < -5 * change.d THEN "down"
                        ELSE "stable",
          change |-> RoundDiv(10 * change.n, change.d) ]

\* VisibilityCalculator._calculate_trend
calculate_trend(brand_normalized, start_date, end_date) ==
    LET period_length == (end_date - start_date) \div DayLen     \* timedelta.days
        prev_start == start_date - period_length * DayLen
        prev_end == start_date
        current_avg == AvgScore({ r \in Rows(scores) :
                                    /\ r.brand_normalized = brand_normalized
                                    /\ r.date >= start_date
                                    /\ r.date <= end_date })
        prev_avg == AvgScore({ r \in Rows(scores) :
                                 /\ r.brand_normalized = brand_normalized
                                 /\ r.date >= prev_start
                                 /\ r.date < prev_end })
        t == trend_direction(current_avg, prev_avg)
    IN  [ direction |-> t.direction,
          change |-> t.change,
          current_avg |-> current_avg,
          prev_avg |-> prev_avg ]

\* ORDER BY score DESC of a set of rows (rows of equal score in id order)
RECURSIVE ByScoreDesc(_)
ByScoreDesc(rows) ==
    IF rows = {} THEN << >>
    ELSE LET top == CHOOSE r \in rows :
                      \A q \in rows \ {r} :
                          r.score > q.score \/ (r.score = q.score /\ r.id < q.id)
         IN  << top >> \o ByScoreDesc(rows \ {top})

\* VisibilityCalculator.calculate_rankings with both dates given
calculate_rankings(start_date, end_date, limit) ==
    LET inWindow == { r \in Rows(scores) : r.date >= start_date /\ r.date <= end_date }
        latest_date(bn) == Max({ r.date : r \in { q \in inWindow : q.brand_normalized = bn } })
        joined == { r \in inWindow : r.date = latest_date(r.brand_normalized) }
        ordered == ByScoreDesc(joined)
        limited == SubSeq(ordered, 1, IF Len(ordered) < limit THEN Len(ordered) ELSE limit)
    IN  /\ resp' = [ op |-> "calculate_rankings",
                     rankings |->
                       [ i \in 1..Len(limited) |->
                           LET trend == calculate_trend(limited[i].brand_normalized,
                                                        start_date, end_date)
                           IN  [ rank |-> i,
                                 brand_name |-> limited[i].brand_name,
                                 brand_normalized |-> limited[i].brand_normalized,
                                 score |-> limited[i].score,
                                 mention_count |-> limited[i].mention_count,
                                 avg_sentiment |-> limited[i].avg_sentiment,
                                 trend |-> trend.direction,
                                 trend_change |-> trend.change,
                                 current_avg |-> trend.current_avg,
                                 prev_avg |-> trend.prev_avg ] ] ]
        /\ UNCHANGED << citVars, now, dbVars, fnIn, fnOut >>

----------------------------------------------------------------------------
(* Requests *)

NoTs == [ kind |-> "none", t |-> 0 ]
BadTs == [ kind |-> "bad", t |-> 0 ]
IsoTs(t) == [ kind |-> "iso", t |-> t ]

Msg(role, content, ts) == [ role |-> role, content |-> content, timestamp |-> ts ]

\* two assistant replies naming "Ab": the first names it three times after
\* the alias "b", the second recommends it
ItemA ==
    [ id |-> "c1",
      platform |-> <<"C", "h", "a", "t", "G", "P", "T">>,
      captured_at |-> IsoTs(0),
      messages |-> << Msg(T_user, <<"q">>, NoTs),
                      Msg(<<"A", "s", "s", "i", "s", "t", "a", "n", "t">>,
                          <<"b", " ", "a", "b", "A", "b", "A", "B">>, IsoTs(1)),
                      Msg(T_assistant, <<"t", "r", "y", " ", "A", "b">>, BadTs) >> ]

\* captured a day later, on an unknown platform; U+0130 precedes the names
ItemB ==
    [ id |-> "c2",
      platform |-> <<"b", "o", "g", "u", "s">>,
      captured_at |-> IsoTs(DayLen),
      messages |-> << Msg(<<"b", "o", "t">>, <<"a", "b">>, NoTs),
                      Msg(T_assistant,
                          <<"I_dot", "a", "b", " ", "v", "s", " ", "c">>, NoTs) >> ]

\* captured_at is not an ISO timestamp
ItemBad ==
    [ id |-> "c3",
      platform |-> T_claude,
      captured_at |-> BadTs,
      messages |-> << Msg(T_assistant, <<"a", "b">>, NoTs) >> ]

Items == { ItemA, ItemB, ItemBad }

Batches == SeqsUpTo(Items, MaxBatch) \ { << >> }

BrandRequests ==
    { [ name |-> <<"A", "b">>, aliases |-> << <<"b">> >> ],
      [ name |-> <<"a", "-", "b">>, aliases |-> << >> ],
      [ name |-> <<"c">>, aliases |-> << >> ] }

CompetitorNames == { <<"A", "B">>, <<"c">> }

CompetitorLists == { << >>, << <<"A", "B">> >>, << <<"c">>, <<"C">> >> }

Times == 0..MaxTime

----------------------------------------------------------------------------
(* Specification *)

InitDb ==
    /\ now = 0
    /\ brands = << >>
    /\ groups = << >>
    /\ groupBrands = {}
    /\ conversations = << >>
    /\ messages = << >>
    /\ mentions = << >>
    /\ scores = << >>
    /\ citations = << >>
    /\ sources = << >>
    /\ analyses = << >>
    /\ resp = [ op |-> "none" ]

Init ==
    /\ InitDb
    /\ fnIn = [ op |-> "none" ]
    /\ fnOut = [ op |-> "none" ]

\* time passes
Tick ==
    /\ now < MaxTime
    /\ now' = now + 1
    /\ UNCHANGED << citVars, dbVars, resp, fnIn, fnOut >>

RegisterBrand ==
    \E r \in BrandRequests : register_brand(r.name, r.aliases, FALSE)

CreateCompetitorGroup ==
    /\ Len(groups) < MaxGroups
    /\ \E owner \in { << >>, <<"a", "b">> }, names \in CompetitorLists :
          create_competitor_group(owner, names)

AddCompetitorToGroup ==
    \E gid \in 1..MaxGroups, name \in CompetitorNames :
        add_competitor_to_group(gid, name)

UploadConversations ==
    \E items \in Batches : upload_conversations(items)

CalculateDailyScores ==
    /\ Len(scores) < MaxScoreRows
    /\ \E date \in Times : calculate_daily_scores(date, << >>)

Next ==
    \/ Tick
    \/ RegisterBrand
    \/ CreateCompetitorGroup
    \/ AddCompetitorToGroup
    \/ UploadConversations
    \/ CalculateDailyScores

\* every handler on one database; the properties below are stated for the
\* handlers they concern, under the specifications of those handlers
Spec == Init /\ [][Next]_vars

\* uploads against a growing brand registry
NextUpload ==
    \/ RegisterBrand
    \/ UploadConversations

SpecUpload == Init /\ [][NextUpload]_vars

----------------------------------------------------------------------------
(* Upload properties *)

\* the indices (1-based) of the items of the last batch that raised
FailedIndices(r) == { r.errors[i].index : i \in 1..Len(r.errors) }

MessagesOf(tbl, conv_id) ==
    { i \in 1..Len(tbl) : tbl[i].conversation_id = conv_id }

MentionsOf(tbl, conv_id) ==
    { i \in 1..Len(tbl) : tbl[i].conversation_id = conv_id }

\* some active brand is named in an assistant message of the item
NamesABrand(item, brandTbl) ==
    \E k \in 1..Len(item.messages), b \in 1..Len(brandTbl) :
        /\ ParseRole(item.messages[k].role) = T_assistant
        /\ brandTbl[b].is_active
        /\ \E n \in 1..Len(names_to_check(brandTbl[b])) :
              Contains(Lower(item.messages[k].content),
                       Lower(names_to_check(brandTbl[b])[n]))

\* the item's conversation, its messages and its mentions are in the tables
ItemPersisted(item, convTbl, msgTbl, menTbl, brandTbl) ==
    /\ HasConversation(convTbl, item.id)
    /\ Cardinality(MessagesOf(msgTbl, item.id)) = Len(item.messages)
    /\ NamesABrand(item, brandTbl) => MentionsOf(menTbl, item.id) # {}

\* C1: when some item of a batch fails, every item of the batch that did not
\* fail, before or after the failing one, has its conversation, messages and
\* mentions stored once upload_conversations returns, and a failing item
\* adds no conversation, message or mention
C1_PartialSuccess ==
    [][ (resp'.op = "upload" /\ now' = now /\ resp'.errors # << >>) =>
          LET items == resp'.items
              failed == FailedIndices(resp')
              ok == (1..Len(items)) \ failed
          IN  /\ \A k \in ok :
                    ItemPersisted(items[k], conversations', messages', mentions', brands)
              /\ Len(conversations') = Len(conversations) + Cardinality(ok)
              /\ \A k \in failed :
                    (~HasConversation(conversations, items[k].id)
                       /\ \A j \in ok : items[j].id # items[k].id)
                    => /\ ~HasConversation(conversations', items[k].id)
                       /\ MessagesOf(messages', items[k].id) = {}
                       /\ MentionsOf(mentions', items[k].id) = {} ]_vars

\* C2: the response's processed is the number of conversations the call
\* stored and brand_mentions_found the number of mentions the call stored
C2_CountsMatchStored ==
    [][ (resp'.op = "upload" /\ now' = now) =>
          /\ resp'.processed = Len(conversations') - Len(conversations)
          /\ resp'.brand_mentions_found = Len(mentions') - Len(mentions) ]_vars

\* C3: received is the batch length, processed + len(errors) = received, and
\* no item contributes more than one error
C3_ReceivedSplits ==
    resp.op = "upload" =>
        /\ resp.received = Len(resp.items)
        /\ resp.processed + Len(resp.errors) = resp.received
        /\ resp.processed >= 0
        /\ \A i \in 1..Len(resp.errors) :
              /\ resp.errors[i].index \in 1..Len(resp.items)
              /\ resp.errors[i].id = resp.items[resp.errors[i].index].id
              /\ \A j \in 1..Len(resp.errors) :
                    i < j => resp.errors[i].index < resp.errors[j].index

\* a batch with a processed item, a malformed item and a duplicate id
C3_Witness ==
    /\ resp.op = "upload"
    /\ resp.processed >= 1
    /\ \E i \in 1..Len(resp.errors) : resp.errors[i].error = "IntegrityError"

\* name occurs in content at offset p, letter case ignored
OccursIgnoringCase(content, name, p) ==
    \E q \in p..Len(content) :
        /\ q > p
        /\ Lower(Slice(content, p, q)) = Lower(name)

OccursAnywhere(content, name) ==
    \E p \in 0..Len(content) : OccursIgnoringCase(content, name, p)

\* C4: per stored assistant message and brand there is at most one mention,
\* and its position is the offset in the message of the first occurrence,
\* letter case ignored, of the first candidate name occurring in the message
C4_OneMentionAtFirstOffset ==
    \A m \in 1..Len(messages), b \in 1..Len(brands) :
        LET ms == { i \in 1..Len(mentions) :
                      /\ mentions[i].message_id = messages[m].id
                      /\ mentions[i].brand_name = brands[b].name }
            content == messages[m].content
            names == names_to_check(brands[b])
        IN  /\ Cardinality(ms) <= 1
            /\ \A i \in ms :
                  \E n \in 1..Len(names) :
                      /\ OccursAnywhere(content, names[n])
                      /\ \A n2 \in 1..(n - 1) : ~OccursAnywhere(content, names[n2])
                      /\ OccursIgnoringCase(content, names[n], mentions[i].position)
                      /\ \A p \in 0..(mentions[i].position - 1) :
                            ~OccursIgnoringCase(content, names[n], p)

----------------------------------------------------------------------------
(* The normalizers as functions of their input *)

InitNormalizeName ==
    /\ InitDb
    /\ fnIn \in [ op : {"normalize_name"}, x : Names, y : Names ]
    /\ fnOut = [ op |-> "none" ]

\* both normalizers applied to x, to their own result, and to y
NormalizeName ==
    /\ fnIn.op = "normalize_name"
    /\ fnOut' = [ op |-> "normalize_name",
                  x |-> fnIn.x,
                  y |-> fnIn.y,
                  tracking_x |-> normalize_brand_name(fnIn.x),
                  tracking_xx |-> normalize_brand_name(normalize_brand_name(fnIn.x)),
                  tracking_y |-> normalize_brand_name(fnIn.y),
                  analysis_x |-> normalize_name(fnIn.x),
                  analysis_xx |-> normalize_name(normalize_name(fnIn.x)),
                  analysis_y |-> normalize_name(fnIn.y) ]
    /\ UNCHANGED << citVars, now, dbVars, resp, fnIn >>

SpecNormalizeName == InitNormalizeName /\ [][NormalizeName]_vars

InitNormalizeDomain ==
    /\ InitDb
    /\ fnIn \in [ op : {"normalize_domain"}, d : Domains ]
    /\ fnOut = [ op |-> "none" ]

\* normalize_domain applied to d and then to its own result, as
\* _update_source does with the domain extract_domain_from_url returned
NormalizeDomain ==
    /\ fnIn.op = "normalize_domain"
    /\ fnOut' = [ op |-> "normalize_domain",
                  d |-> fnIn.d,
                  once |-> normalize_domain(fnIn.d),
                  twice |-> normalize_domain(normalize_domain(fnIn.d)) ]
    /\ UNCHANGED << citVars, now, dbVars, resp, fnIn >>

SpecNormalizeDomain == InitNormalizeDomain /\ [][NormalizeDomain]_vars

----------------------------------------------------------------------------
(* Normalizer properties *)

\* the letter or digit a character stands for when case is ignored (simple
\* case mapping), the empty string for a character that is neither
FoldChar(c) ==
    IF c \in LowerAlnum THEN << c >>
    ELSE IF \E i \in 1..Len(UpperLetters) : UpperLetters[i] = c
    THEN << LowerLetters[CHOOSE i \in 1..Len(UpperLetters) : UpperLetters[i] = c] >>
    ELSE IF c = "I_dot" THEN << "i" >>
    ELSE << >>

\* the letters and digits of a name, case ignored
RECURSIVE Fold(_)
Fold(s) == IF s = << >> THEN << >> ELSE FoldChar(Head(s)) \o Fold(Tail(s))

\* the two names differ only in letter case or punctuation
SameUpToCaseAndPunctuation(x, y) == Fold(x) = Fold(y)

\* C5: normalize_brand_name and normalize_name are idempotent, return only
\* characters of [a-z0-9], and give two names that differ only in letter case
\* or punctuation the same key
C5_NormalizeName ==
    fnOut.op = "normalize_name" =>
        /\ fnOut.tracking_xx = fnOut.tracking_x
        /\ fnOut.analysis_xx = fnOut.analysis_x
        /\ Range(fnOut.tracking_x) \subseteq LowerAlnum
        /\ Range(fnOut.analysis_x) \subseteq LowerAlnum
        /\ SameUpToCaseAndPunctuation(fnOut.x, fnOut.y) =>
              /\ fnOut.tracking_x = fnOut.tracking_y
              /\ fnOut.analysis_x = fnOut.analysis_y

\* two different names, one with an upper-case letter, with one key
C5_Witness ==
    /\ fnOut.op = "normalize_name"
    /\ fnOut.x # fnOut.y
    /\ "A" \in Range(fnOut.x)
    /\ "-" \in Range(fnOut.y)
    /\ fnOut.tracking_x # << >>
    /\ fnOut.tracking_x = fnOut.tracking_y

\* C6: normalize_domain applied to its own result returns that result
C6_NormalizeDomainIdempotent ==
    fnOut.op = "normalize_domain" => fnOut.twice = fnOut.once

----------------------------------------------------------------------------
(* Brand registry properties *)

\* brands registered directly and through competitor groups
NextRegistry ==
    \/ RegisterBrand
    \/ CreateCompetitorGroup
    \/ AddCompetitorToGroup

SpecRegistry == Init /\ [][NextRegistry]_vars

\* C7: no two Brand rows share a normalized_name, whatever sequence of
\* register_brand and competitor-group get-or-create operations ran
C7_NormalizedNameUnique ==
    \A i, j \in 1..Len(brands) :
        i # j => brands[i].normalized_name # brands[j].normalized_name

\* register_brand was refused for a name that is new but whose normalized
\* form is the one of a brand a competitor group created
C7_Witness ==
    /\ resp.op = "register_brand"
    /\ resp.error = "IntegrityError"
    /\ \A i \in 1..Len(brands) : brands[i].name # resp.name
    /\ \E i \in 1..Len(brands) :
          /\ brands[i].normalized_name = normalize_brand_name(resp.name)
          /\ brands[i].is_competitor

----------------------------------------------------------------------------
(* Visibility score properties *)

\* a batch of one well-formed conversation
UploadOneConversation ==
    \E item \in { ItemA, ItemB } : upload_conversations(<< item >>)

\* brands, single uploads and daily score runs as time passes
NextScores ==
    \/ Tick
    \/ RegisterBrand
    \/ UploadOneConversation
    \/ CalculateDailyScores

SpecScores == Init /\ [][NextScores]_vars

Percent == 0..10000     \* [0, 100] in hundredths

\* C8: every VisibilityScore row has its score and each stored component
\* score in [0, 100]
C8_ScoresInRange ==
    \A r \in Rows(scores) :
        /\ r.score \in Percent
        /\ r.frequency_score \in Percent
        /\ r.position_score \in Percent
        /\ r.sentiment_score \in Percent

\* a row of a brand mentioned more often than there are conversations,
\* whose frequency component is held at 100
C8_Witness ==
    \E r \in Rows(scores) :
        /\ r.mention_count > r.conversation_count
        /\ r.frequency_score = 10000
        /\ r.score > 0

\* the brands with a mention created on the day that starts at date
MentionedOn(date) ==
    { m.brand_normalized : m \in { r \in Rows(mentions) :
                                     /\ r.created_at >= date
                                     /\ r.created_at < date + DayLen } }

\* the score and aggregate values of a row
ScoreValues(r) ==
    << r.brand_normalized, r.date, r.score, r.mention_count, r.avg_position,
       r.avg_sentiment, r.frequency_score, r.position_score, r.sentiment_score,
       r.conversation_count >>

\* C9: rows already written are never modified or deleted; a run of
\* calculate_daily_scores appends exactly one row per brand with a mention
\* that day and none when there is no mention; and a run that follows a run
\* for the same date, with no change to mentions or conversations in
\* between, appends rows with the same score and aggregate values
C9_AppendsDuplicates ==
    [][ /\ Len(scores') >= Len(scores)
        /\ SubSeq(scores', 1, Len(scores)) = scores
        /\ (resp'.op = "calculate_daily_scores" /\ now' = now) =>
              LET new == SubSeq(scores', Len(scores) + 1, Len(scores'))
                  keys == MentionedOn(resp'.date)
              IN  /\ resp'.scores = new
                  /\ Len(new) = Cardinality(keys)
                  /\ \A bn \in keys :
                        Cardinality({ i \in 1..Len(new) :
                                        /\ new[i].brand_normalized = bn
                                        /\ new[i].date = resp'.date }) = 1
                  /\ (resp.op = "calculate_daily_scores" /\ resp.date = resp'.date) =>
                        /\ Len(resp.scores) = Len(new)
                        /\ \A i \in 1..Len(new) :
                              ScoreValues(new[i]) = ScoreValues(resp.scores[i]) ]_vars

\* the second run for a date: its rows and the first run's rows are all there
C9_Witness ==
    /\ resp.op = "calculate_daily_scores"
    /\ resp.scores # << >>
    /\ Len(scores) >= 2 * Len(resp.scores)
    /\ \A i \in 1..Len(resp.scores) :
          Cardinality({ j \in 1..Len(scores) :
                          ScoreValues(scores[j]) = ScoreValues(resp.scores[i]) }) >= 2

----------------------------------------------------------------------------
(* The trend of a ranking as a function of the visibility_scores table *)

TrendDates == { 0, DayLen, 2 * DayLen }
TrendScores == { 0, 2849, 2850, 3000, 3150, 3151 }

\* a VisibilityScore row of brand "ab"
TrendRow(date, score) ==
    [ id |-> 0,
      brand_name |-> <<"A", "b">>,
      brand_normalized |-> <<"a", "b">>,
      date |-> date,
      platform |-> << >>,
      score |-> score,
      mention_count |-> 1,
      avg_position |-> 0,
      avg_sentiment |-> 0,
      frequency_score |-> 0,
      position_score |-> 0,
      sentiment_score |-> 0,
      conversation_count |-> 1,
      created_at |-> 0 ]

TrendTables ==
    { [ i \in 1..Len(s) |-> [ s[i] EXCEPT !.id = i ] ] :
        s \in SeqsUpTo({ TrendRow(d, v) : d \in TrendDates, v \in TrendScores },
                       MaxTrendRows) }

InitTrend ==
    /\ now = 0
    /\ brands = << >>
    /\ groups = << >>
    /\ groupBrands = {}
    /\ conversations = << >>
    /\ messages = << >>
    /\ mentions = << >>
    /\ scores \in TrendTables
    /\ citations = << >>
    /\ sources = << >>
    /\ analyses = << >>
    /\ resp = [ op |-> "none" ]
    /\ fnIn = [ op |-> "none" ]
    /\ fnOut = [ op |-> "none" ]

CalculateRankings ==
    \E start_date \in TrendDates, end_date \in TrendDates :
        calculate_rankings(start_date, end_date, 50)

SpecTrend == InitTrend /\ [][CalculateRankings]_vars

\* the trend entries of the last ranking
Trends == { resp.rankings[i] : i \in 1..Len(resp.rankings) }

\* (current_avg - prev_avg) / prev_avg * 100 as a fraction num / den, the
\* averages being the fractions sum / count
ChangeNum(r) == 100 * (r.current_avg.sum * r.prev_avg.count
                         - r.prev_avg.sum * r.current_avg.count)
ChangeDen(r) == r.prev_avg.sum * r.current_avg.count

\* C10 as stated: the returned change is (current_avg - prev_avg) / prev_avg
\* * 100 when prev_avg > 0, else 100 if current_avg > 0 and 0 if not, and the
\* direction is up exactly when that change is > 5, down exactly when it is
\* < -5, and stable otherwise (trend_change is in tenths)
C10_TrendChangeExact ==
    resp.op = "calculate_rankings" =>
        \A r \in Trends :
            /\ IF r.prev_avg.sum > 0
               THEN r.trend_change * ChangeDen(r) = 10 * ChangeNum(r)
               ELSE r.trend_change = (IF r.current_avg.sum > 0 THEN 1000 ELSE 0)
            /\ r.trend = "up" <=> r.trend_change > 50
            /\ r.trend = "down" <=> r.trend_change < -50
            /\ r.trend \in { "up", "down", "stable" }

\* C10 amended: the returned change is that value rounded to one decimal,
\* and the direction is decided on the value before rounding: up exactly
\* when it is > 5, down exactly when it is < -5, stable otherwise
C10_TrendChangeRounded ==
    resp.op = "calculate_rankings" =>
        \A r \in Trends :
            /\ r.trend \in { "up", "down", "stable" }
            /\ IF r.prev_avg.sum > 0
               THEN LET n == ChangeNum(r)
                        d == ChangeDen(r)
                        diff == r.trend_change * d - 10 * n
                    IN  /\ 2 * diff <= d
                        /\ 2 * diff >= -d
                        /\ r.trend = "up" <=> n > 5 * d
                        /\ r.trend = "down" <=> n < -5 * d
               ELSE /\ r.trend_change = (IF r.current_avg.sum > 0 THEN 1000 ELSE 0)
                    /\ r.trend = (IF r.current_avg.sum > 0 THEN "up" ELSE "stable")

\* a ranking whose change is exactly +5 and one whose change is exactly -5,
\* both stable
C10_Witness ==
    /\ resp.op = "calculate_rankings"
    /\ \E r \in Trends :
          /\ r.prev_avg.sum > 0
          /\ ChangeNum(r) \in { 5 * ChangeDen(r), -5 * ChangeDen(r) }
          /\ r.trend_change \in { 50, -50 }
          /\ r.trend = "stable"

----------------------------------------------------------------------------
(* Ranking Engine (tracking/service.py get_ranking) *)

\* the permutations of a finite set, as sequences
RECURSIVE Perms(_)
Perms(S) ==
    IF S = {} THEN { << >> }
    ELSE UNION { { << x >> \o s : s \in Perms(S \ {x}) } : x \in S }

\* the first n elements of a sequence (s[:n])
Take(s, n) == SubSeq(s, 1, IF Len(s) < n THEN Len(s) ELSE n)

\* func.count(BrandMention.id) of a brand with start_date <= created_at <= end_date
MentionCount(bn, start_date, end_date) ==
    Cardinality({ i \in 1..Len(mentions) :
                    /\ mentions[i].brand_normalized = bn
                    /\ mentions[i].created_at >= start_date
                    /\ mentions[i].created_at <= end_date })

\* the results the "top brands by mention count" query may return: the
\* mentioned brands by descending count, brands of equal count in any order,
\* cut to limit + 1 rows
TopBrands(start_date, end_date, limit) ==
    LET mentioned == { mentions[i].brand_normalized : i \in
                         { j \in 1..Len(mentions) :
                             /\ mentions[j].created_at >= start_date
                             /\ mentions[j].created_at <= end_date } }
        byCount == { s \in Perms(mentioned) :
                       \A i, j \in 1..Len(s) :
                           i < j => MentionCount(s[i], start_date, end_date)
                                      >= MentionCount(s[j], start_date, end_date) }
    IN  { Take(s, limit + 1) : s \in byCount }

\* all_brands, given the result of the top-brands query (competitors << >>
\* is None or an empty list)
AllBrands(brand_normalized, competitors, top) ==
    IF competitors # << >>
    THEN << brand_normalized >>
           \o [ i \in 1..Len(competitors) |-> normalize_brand_name(competitors[i]) ]
    ELSE IF \E i \in 1..Len(top) : top[i] = brand_normalized
    THEN top
    ELSE Append(top, brand_normalized)

\* the rows "latest visibility score" may return for a brand, by index in
\* scores (0: no row): date >= start_date, ORDER BY date DESC LIMIT 1, rows
\* of equal date in any order
LatestScoreRows(bn, start_date) ==
    LET rows == { i \in 1..Len(scores) :
                    /\ scores[i].brand_normalized = bn
                    /\ scores[i].date >= start_date }
    IN  IF rows = {} THEN { 0 }
        ELSE { i \in rows : \A j \in rows : scores[i].date >= scores[j].date }

\* the RankingItem built for one element of all_brands, latest being the
\* index of its latest score row
RankingItemOf(bn, latest, start_date, end_date) ==
    LET mention_count == MentionCount(bn, start_date, end_date) IN
    [ brand_name |-> DisplayName(bn),
      score |-> IF latest # 0 THEN scores[latest].score
                ELSE IF mention_count * 500 > 10000 THEN 10000 ELSE mention_count * 500,
      rank |-> 0,
      mention_count |-> mention_count,
      trend |-> "stable",
      change |-> "None" ]

\* rankings.sort(key=lambda x: x.score, reverse=True): items of equal score
\* keep their order
RECURSIVE SortByScoreDesc_LastOfTies(_)
SortByScoreDesc_LastOfTies(s) ==
    IF s = << >> THEN << >>
    ELSE LET k == CHOOSE i \in 1..Len(s) :
                    /\ \A j \in 1..Len(s) : s[i].score >= s[j].score
                    /\ \A j \in (i + 1)..Len(s) : s[j].score # s[i].score
         IN  << s[k] >> \o SortByScoreDesc_LastOfTies(
                               SubSeq(s, 1, k - 1) \o SubSeq(s, k + 1, Len(s)))

RECURSIVE SortByScoreDesc(_)
SortByScoreDesc(s) ==
    IF s = << >> THEN << >>
    ELSE LET k == CHOOSE i \in 1..Len(s) :
                    /\ \A j \in 1..Len(s) : s[i].score >= s[j].score
                    /\ \A j \in 1..(i - 1) : s[j].score # s[i].score
         IN  << s[k] >> \o SortByScoreDesc(SubSeq(s, 1, k - 1) \o SubSeq(s, k + 1, Len(s)))

\* "for i, r in enumerate(rankings): r.rank = i + 1"
AssignRanks(s) == [ i \in 1..Len(s) |-> [ s[i] EXCEPT !.rank = i ] ]

\* TrackingService.get_ranking with both dates given; top and latest are the
\* results the database returned for the queries that leave the order open.
\* The response also shows the handler's lists all_brands and rankings.
get_ranking(brand, competitors, start_date, end_date, limit, top, latest) ==
    \E brand_normalized \in { normalize_brand_name(brand) } :
    \E all_brands \in { AllBrands(brand_normalized, competitors, top) } :
    \E unsorted \in { [ i \in 1..Len(all_brands) |->
                          RankingItemOf(all_brands[i], latest[all_brands[i]],
                                        start_date, end_date) ] } :
    \E rankings \in { AssignRanks(SortByScoreDesc(unsorted)) } :
        LET isTarget(r) == normalize_brand_name(r.brand_name) = brand_normalized
            found == { i \in 1..Len(rankings) : isTarget(rankings[i]) }
            first == CHOOSE i \in found : \A j \in found : i <= j
        IN  /\ resp' = [ op |-> "get_ranking",
                         brand |-> brand,
                         competitors |-> competitors,
                         start_date |-> start_date,
                         end_date |-> end_date,
                         limit |-> limit,
                         all_brands |-> all_brands,
                         unsorted |-> unsorted,
                         sorted |-> rankings,
                         brand_rank |-> IF found = {} THEN 0 ELSE rankings[first].rank,
                         brand_score |-> IF found = {} THEN 0 ELSE rankings[first].score,
                         rankings |-> Take(SelectSeq(rankings, LAMBDA r : ~isTarget(r)),
                                           limit),
                         total_brands |-> Len(rankings) ]
            /\ UNCHANGED << citVars, now, dbVars, fnIn, fnOut >>

----------------------------------------------------------------------------
(* get_ranking as a function of the database *)

RankBrands == << <<"a", "b">>, <<"c">> >>
RankDates == << 0, DayLen, 2 * DayLen >>
RankScores == << 2000, 5000 >>
RankMentionCounts == { 0, 2 }

\* the VisibilityScore rows the tables are drawn from
RankRowOptions ==
    [ k \in 1..(Len(RankBrands) * Len(RankDates) * Len(RankScores)) |->
        LET b == ((k - 1) \div (Len(RankDates) * Len(RankScores))) + 1
            d == (((k - 1) \div Len(RankScores)) % Len(RankDates)) + 1
            v == ((k - 1) % Len(RankScores)) + 1
        IN  [ TrendRow(RankDates[d], RankScores[v]) EXCEPT
                !.brand_normalized = RankBrands[b],
                !.brand_name = RankBrands[b] ] ]

\* the rows of RankRowOptions with index in S, in index order, ids 1..
RECURSIVE RankTable(_, _)
RankTable(S, id) ==
    IF S = {} THEN << >>
    ELSE LET k == CHOOSE i \in S : \A j \in S : i <= j
         IN  << [ RankRowOptions[k] EXCEPT !.id = id ] >> \o RankTable(S \ {k}, id + 1)

\* a BrandMention row of a brand, created on day DayLen
RankMention(id, bn) ==
    [ id |-> id,
      conversation_id |-> "c1",
      message_id |-> 1,
      brand_name |-> bn,
      brand_normalized |-> bn,
      mention_type |-> "direct",
      position |-> 0,
      context |-> bn,
      sentiment |-> 0,
      created_at |-> DayLen ]

\* n_ab mentions of "ab" followed by n_c mentions of "c"
RankMentions(n_ab, n_c) ==
    [ i \in 1..(n_ab + n_c) |->
        RankMention(i, IF i <= n_ab THEN RankBrands[1] ELSE RankBrands[2]) ]

InitRanking ==
    /\ now = 2 * DayLen
    /\ brands = << NewBrand(<< >>, <<"A", "b">>, <<"a", "b">>, << >>, FALSE) >>
    /\ groups = << >>
    /\ groupBrands = {}
    /\ conversations = << >>
    /\ messages = << >>
    /\ \E n_ab \in RankMentionCounts, n_c \in RankMentionCounts :
          mentions = RankMentions(n_ab, n_c)
    /\ \E S \in SUBSET (1..Len(RankRowOptions)) :
          /\ Cardinality(S) <= MaxRankRows
          /\ scores = RankTable(S, 1)
    /\ citations = << >>
    /\ sources = << >>
    /\ analyses = << >>
    /\ resp = [ op |-> "none" ]
    /\ fnIn = [ op |-> "none" ]
    /\ fnOut = [ op |-> "none" ]

RankingRequests ==
    [ brand : { <<"A", "b">>, <<"c">> },
      competitors : { << >>, << <<"C">>, <<"c">> >>, << <<"d">>, <<"A", "-", "b">> >> },
      limit : { 1, 10 } ]

\* GET /ranking for the day DayLen
GetRanking ==
    \E r \in RankingRequests :
        \E top \in TopBrands(DayLen, DayLen, r.limit) :
            \E candidates \in { Range(AllBrands(normalize_brand_name(r.brand),
                                                  r.competitors, top)) } :
            \E options \in { [ bn \in candidates |-> LatestScoreRows(bn, DayLen) ] } :
            \E latest \in { f \in [ candidates -> 0..Len(scores) ] :
                              \A bn \in candidates : f[bn] \in options[bn] } :
                get_ranking(r.brand, r.competitors, DayLen, DayLen, r.limit, top, latest)

SpecRanking == InitRanking /\ [][GetRanking]_vars

----------------------------------------------------------------------------
(* Ranking properties *)

\* C11: the candidates are ordered by score descending, candidates of equal
\* score in the order they were enumerated, and ranked 1..N by position: the
\* ranks are the integers 1..N, each once, and a strictly higher score has a
\* smaller rank
C11_StableRanks ==
    resp.op = "get_ranking" =>
        LET N == Len(resp.unsorted)
            s == resp.sorted
        IN  /\ Len(s) = N
            /\ \A i \in 1..N : s[i].rank = i
            /\ { s[i].rank : i \in 1..N } = 1..N
            /\ \A i, j \in 1..N : s[i].score > s[j].score => s[i].rank < s[j].rank
            /\ \E p \in [ 1..N -> 1..N ] :
                  /\ \A i, j \in 1..N : i # j => p[i] # p[j]
                  /\ \A i \in 1..N : s[i] = [ resp.unsorted[p[i]] EXCEPT !.rank = i ]
                  /\ \A i, j \in 1..N :
                        (i < j /\ s[i].score = s[j].score) => p[i] < p[j]

\* three candidates, the last enumerated with the highest score and the
\* first two tied
C11_Witness ==
    /\ resp.op = "get_ranking"
    /\ Len(resp.unsorted) = 3
    /\ resp.unsorted[1].score = resp.unsorted[2].score
    /\ resp.unsorted[1] # resp.unsorted[2]
    /\ resp.unsorted[3].score > resp.unsorted[1].score
    /\ resp.sorted[1].brand_name = resp.unsorted[3].brand_name

\* C12: no item of the returned rankings is the target brand, the target
\* brand is counted in total_brands, total_brands is the number of distinct
\* brands ranked, and brand_rank is between 1 and total_brands
C12_TargetExcludedAndCounted ==
    resp.op = "get_ranking" =>
        LET target == normalize_brand_name(resp.brand)
            ranked == { normalize_brand_name(resp.sorted[i].brand_name) :
                          i \in 1..Len(resp.sorted) }
        IN  /\ \A i \in 1..Len(resp.rankings) :
                  normalize_brand_name(resp.rankings[i].brand_name) # target
            /\ target \in ranked
            /\ resp.total_brands = Cardinality(ranked)
            /\ resp.brand_rank \in 1..resp.total_brands

----------------------------------------------------------------------------
(* Upload defaults *)

\* item k of the batch has a well-formed captured_at and an id that neither
\* the database nor an earlier item of the batch holds
Acceptable(items, k, convTbl) ==
    /\ IsoOk(items[k].captured_at)
    /\ ~HasConversation(convTbl, items[k].id)
    /\ \A j \in 1..(k - 1) : items[j].id # items[k].id

\* C13: an item whose platform or message role is unrecognised, or whose
\* message timestamp is missing or malformed, is not rejected: it gets no
\* error (so it is counted in processed), and what is stored for it carries
\* platform 'other', role 'user' and the conversation's capture time as
\* message timestamp, respectively
C13_DefaultsForUnrecognised ==
    [][ (resp'.op = "upload" /\ now' = now) =>
          LET items == resp'.items
          IN  \A k \in 1..Len(items) :
                Acceptable(items, k, conversations) =>
                  /\ k \notin FailedIndices(resp')
                  /\ resp'.processed >= 1
                  /\ \A c \in 1..Len(conversations') :
                        (/\ conversations'[c].id = items[k].id
                         /\ Lower(items[k].platform) \notin Platform)
                        => conversations'[c].platform = T_other
                  /\ \A m \in MessagesOf(messages', items[k].id) :
                        LET sent == items[k].messages[messages'[m].sequence + 1]
                        IN  /\ Lower(sent.role) \notin MessageRole
                               => messages'[m].role = T_user
                            /\ sent.timestamp.kind \in { "none", "bad" }
                               => messages'[m].timestamp
                                    = ParseIso(items[k].captured_at) ]_vars

\* a batch was stored that holds an item of an unknown platform with a
\* message of an unknown role and no timestamp, and an item with a message
\* whose timestamp is malformed
C13_Witness ==
    /\ resp.op = "upload"
    /\ resp.errors = << >>
    /\ \E k \in 1..Len(resp.items), c \in 1..Len(conversations) :
          /\ Lower(resp.items[k].platform) \notin Platform
          /\ conversations[c].id = resp.items[k].id
          /\ conversations[c].platform = T_other
          /\ \E m \in MessagesOf(messages, resp.items[k].id) :
                LET sent == resp.items[k].messages[messages[m].sequence + 1]
                IN  /\ Lower(sent.role) \notin MessageRole
                    /\ sent.timestamp.kind = "none"
                    /\ messages[m].role = T_user
                    /\ messages[m].timestamp = conversations[c].captured_at
    /\ \E k \in 1..Len(resp.items) :
          \E m \in MessagesOf(messages, resp.items[k].id) :
             /\ resp.items[k].messages[messages[m].sequence + 1].timestamp.kind = "bad"
             /\ messages[m].timestamp = ParseIso(resp.items[k].captured_at)

\* item k's id is held neither by the database nor by another item of the
\* batch
FreshId(items, k, convTbl) ==
    /\ ~HasConversation(convTbl, items[k].id)
    /\ \A j \in 1..Len(items) : j # k => items[j].id # items[k].id

\* C14 as stated: whatever field of an item is malformed, captured_at
\* included, the item gets no error and is stored
C14_NoItemDropped ==
    [][ (resp'.op = "upload" /\ now' = now) =>
          LET items == resp'.items
          IN  \A k \in 1..Len(items) :
                FreshId(items, k, conversations) =>
                  /\ k \notin FailedIndices(resp')
                  /\ HasConversation(conversations', items[k].id) ]_vars

\* C14, amended: upload_conversations returns a response for every batch;
\* an item whose captured_at is malformed is not stored but skipped with one
\* error in the response, while the items after it are still processed, and
\* an item whose captured_at is well formed gets no error whatever its
\* platform, roles and message timestamps are
C14_MalformedCapturedAtSkipped ==
    [][ (resp'.op = "upload" /\ now' = now) =>
          LET items == resp'.items
              failed == FailedIndices(resp')
          IN  /\ resp'.received = Len(items)
              /\ resp'.processed = Len(items) - Cardinality(failed)
              /\ \A k \in 1..Len(items) :
                    /\ ~IsoOk(items[k].captured_at) =>
                          /\ k \in failed
                          /\ FreshId(items, k, conversations) =>
                                /\ ~HasConversation(conversations', items[k].id)
                                /\ MessagesOf(messages', items[k].id) = {}
                                /\ MentionsOf(mentions', items[k].id) = {}
                    /\ (IsoOk(items[k].captured_at)
                          /\ FreshId(items, k, conversations)) =>
                          k \notin failed ]_vars

\* an item with a malformed captured_at was skipped with an error and the
\* item after it was stored
C14_Witness ==
    /\ resp.op = "upload"
    /\ \E k \in 1..Len(resp.items) :
          /\ ~IsoOk(resp.items[k].captured_at)
          /\ k \in FailedIndices(resp)
          /\ ~HasConversation(conversations, resp.items[k].id)
          /\ k < Len(resp.items)
          /\ (k + 1) \notin FailedIndices(resp)
          /\ HasConversation(conversations, resp.items[k + 1].id)

----------------------------------------------------------------------------
(* Source classification (citation/service.py) *)

\* class SourceType
SourceType ==
    { "website", "news", "academic", "social", "gov", "edu", "docs",
      "ecommerce", "unknown" }

\* str.endswith(suffix)
EndsWith(s, suffix) ==
    Len(s) >= Len(suffix) /\ SubSeq(s, Len(s) - Len(suffix) + 1, Len(s)) = suffix

\* any(k in s for k in keywords)
ContainsAny(s, keywords) == \E k \in keywords : Contains(s, k)

\* the keyword lists of classify_source_type
NewsKeywords ==
    { <<"n", "y", "t", "i", "m", "e", "s">>, <<"b", "b", "c">>,
      <<"r", "e", "u", "t", "e", "r", "s">>, <<"c", "n", "n">>,
      <<"w", "a", "s", "h", "i", "n", "g", "t", "o", "n", "p", "o", "s", "t">>,
      <<"t", "h", "e", "g", "u", "a", "r", "d", "i", "a", "n">>,
      <<"f", "o", "r", "b", "e", "s">>,
      <<"b", "l", "o", "o", "m", "b", "e", "r", "g">>, <<"w", "s", "j">>,
      <<"n", "e", "w", "s">> }

AcademicKeywords ==
    { <<"a", "r", "x", "i", "v">>, <<"s", "c", "h", "o", "l", "a", "r">>,
      <<"p", "u", "b", "m", "e", "d">>,
      <<"r", "e", "s", "e", "a", "r", "c", "h", "g", "a", "t", "e">>,
      <<"j", "s", "t", "o", "r">>,
      <<"s", "p", "r", "i", "n", "g", "e", "r">>,
      <<"w", "i", "l", "e", "y">>,
      <<"n", "a", "t", "u", "r", "e", ".", "c", "o", "m">>,
      <<"s", "c", "i", "e", "n", "c", "e", ".", "o", "r", "g">> }

SocialKeywords ==
    { <<"t", "w", "i", "t", "t", "e", "r">>, <<"x", ".", "c", "o", "m">>,
      <<"f", "a", "c", "e", "b", "o", "o", "k">>,
      <<"l", "i", "n", "k", "e", "d", "i", "n">>,
      <<"r", "e", "d", "d", "i", "t">>,
      <<"i", "n", "s", "t", "a", "g", "r", "a", "m">>,
      <<"t", "i", "k", "t", "o", "k">>,
      <<"y", "o", "u", "t", "u", "b", "e">> }

DocsKeywords ==
    { <<"d", "o", "c", "s", ".">>,
      <<"d", "o", "c", "u", "m", "e", "n", "t", "a", "t", "i", "o", "n">>,
      <<"r", "e", "a", "d", "m", "e">>,
      <<"g", "i", "t", "h", "u", "b", ".", "i", "o">>,
      <<"d", "e", "v", "e", "l", "o", "p", "e", "r", ".">>,
      <<"a", "p", "i", ".">> }

EcommerceKeywords ==
    { <<"a", "m", "a", "z", "o", "n">>, <<"e", "b", "a", "y">>,
      <<"s", "h", "o", "p", "i", "f", "y">>, <<"e", "t", "s", "y">>,
      <<"a", "l", "i", "b", "a", "b", "a">> }

classify_source_type_NewsFirst(domain) ==
    LET domain_lower == Lower(domain)
    IN  IF ContainsAny(domain_lower, NewsKeywords) THEN "news"
        ELSE IF EndsWith(domain_lower, <<".", "g", "o", "v">>) THEN "gov"
        ELSE IF EndsWith(domain_lower, <<".", "e", "d", "u">>) THEN "edu"
        ELSE IF ContainsAny(domain_lower, AcademicKeywords) THEN "academic"
        ELSE IF ContainsAny(domain_lower, SocialKeywords) THEN "social"
        ELSE IF ContainsAny(domain_lower, DocsKeywords) THEN "docs"
        ELSE IF ContainsAny(domain_lower, EcommerceKeywords) THEN "ecommerce"
        ELSE "website"

\* classify_source_type: the if/elif chain
classify_source_type(domain) ==
    LET domain_lower == Lower(domain)
    IN  IF EndsWith(domain_lower, <<".", "g", "o", "v">>) THEN "gov"
        ELSE IF EndsWith(domain_lower, <<".", "e", "d", "u">>) THEN "edu"
        ELSE IF ContainsAny(domain_lower, NewsKeywords) THEN "news"
        ELSE IF ContainsAny(domain_lower, AcademicKeywords) THEN "academic"
        ELSE IF ContainsAny(domain_lower, SocialKeywords) THEN "social"
        ELSE IF ContainsAny(domain_lower, DocsKeywords) THEN "docs"
        ELSE IF ContainsAny(domain_lower, EcommerceKeywords) THEN "ecommerce"
        ELSE "website"

\* base_scores.get(source_type, 50.0); every score of the table is a whole
\* number, kept here as an integer
BaseScore(source_type) ==
    CASE source_type = "gov" -> 90
      [] source_type = "edu" -> 85
      [] source_type = "academic" -> 85
      [] source_type = "news" -> 75
      [] source_type = "docs" -> 70
      [] source_type = "website" -> 50
      [] source_type = "social" -> 40
      [] source_type = "ecommerce" -> 45
      [] source_type = "unknown" -> 30
      [] OTHER -> 50

\* known_high_authority
KnownHighAuthority ==
    { <<"w", "i", "k", "i", "p", "e", "d", "i", "a", ".", "o", "r", "g">>,
      <<"g", "i", "t", "h", "u", "b", ".", "c", "o", "m">>,
      <<"s", "t", "a", "c", "k", "o", "v", "e", "r", "f", "l", "o", "w", ".", "c", "o", "m">>,
      <<"m", "e", "d", "i", "u", "m", ".", "c", "o", "m">>,
      <<"m", "i", "c", "r", "o", "s", "o", "f", "t", ".", "c", "o", "m">>,
      <<"g", "o", "o", "g", "l", "e", ".", "c", "o", "m">>,
      <<"a", "p", "p", "l", "e", ".", "c", "o", "m">> }

calculate_authority_score_CaseSensitive(domain, source_type) ==
    LET score == BaseScore(source_type)
    IN  IF ContainsAny(domain, KnownHighAuthority)
        THEN (IF score + 10 > 100 THEN 100 ELSE score + 10)
        ELSE score

\* calculate_authority_score
calculate_authority_score(domain, source_type) ==
    LET score == BaseScore(source_type)
    IN  IF ContainsAny(Lower(domain), KnownHighAuthority)
        THEN (IF score + 10 > 100 THEN 100 ELSE score + 10)
        ELSE score

----------------------------------------------------------------------------
(* classify_source_type and calculate_authority_score as functions of
   their arguments *)

\* labels a domain name is put together from
SubLabels ==
    { <<>>, <<"d", "o", "c", "s", ".">>, <<"n", "e", "w", "s", ".">>,
      <<"a", "p", "i", ".">>, <<"w", "w", "w", ".">> }

HostLabels ==
    { <<"e", "x", "a", "m", "p", "l", "e">>,
      <<"a", "m", "a", "z", "o", "n">>,
      <<"W", "i", "k", "i", "p", "e", "d", "i", "a">>,
      <<"n", "a", "t", "u", "r", "e">>, <<"x">>, <<"b", "o", "x">>,
      <<"g", "i", "t", "h", "u", "b">>, <<"a", "r", "x", "i", "v">>,
      <<"b", "b", "c">> }

TopLabels ==
    { <<".", "g", "o", "v">>, <<".", "e", "d", "u">>, <<".", "c", "o", "m">>,
      <<".", "o", "r", "g">>, <<".", "i", "o">>, <<".", "G", "O", "V">> }

SourceDomains ==
    { sub \o host \o top : sub \in SubLabels, host \in HostLabels, top \in TopLabels }

InitSourceType ==
    /\ InitDb
    /\ fnIn \in [ op : {"classify"}, domain : SourceDomains, source_type : SourceType ]
    /\ fnOut = [ op |-> "none" ]

\* _update_source's two calls, and calculate_authority_score with a source
\* type of the caller's choice
ClassifySource ==
    /\ fnIn.op = "classify"
    /\ \E source_type \in { classify_source_type(fnIn.domain) } :
          fnOut' = [ op |-> "classify",
                     domain |-> fnIn.domain,
                     source_type |-> source_type,
                     authority |-> calculate_authority_score(fnIn.domain, source_type),
                     given_type |-> fnIn.source_type,
                     given_authority |->
                         calculate_authority_score(fnIn.domain, fnIn.source_type) ]
    /\ UNCHANGED << citVars, now, dbVars, resp, fnIn >>

SpecSourceType == InitSourceType /\ [][ClassifySource]_vars

----------------------------------------------------------------------------
(* Source classification properties *)

\* the categories of the seven rules, in the order of the rule list
RuleCategory ==
    << "gov", "edu", "news", "academic", "social", "docs", "ecommerce" >>

\* rule i of the list matches the domain, letter case ignored
RuleMatches(i, domain) ==
    LET d == Lower(domain)
    IN  CASE i = 1 -> EndsWith(d, <<".", "g", "o", "v">>)
          [] i = 2 -> EndsWith(d, <<".", "e", "d", "u">>)
          [] i = 3 -> \E k \in NewsKeywords : Find(d, k) >= 0
          [] i = 4 -> \E k \in AcademicKeywords : Find(d, k) >= 0
          [] i = 5 -> \E k \in SocialKeywords : Find(d, k) >= 0
          [] i = 6 -> \E k \in DocsKeywords : Find(d, k) >= 0
          [] i = 7 -> \E k \in EcommerceKeywords : Find(d, k) >= 0

MatchingRules(domain) == { i \in 1..Len(RuleCategory) : RuleMatches(i, domain) }

\* C18: classify_source_type gives every domain exactly one category, that
\* of the first matching rule in the order .gov suffix, .edu suffix, news,
\* academic, social, docs, e-commerce keyword, and WEBSITE when no rule
\* matches; docs.example.com is DOCS and example.gov is GOV
C18_FirstMatchingRule ==
    fnOut.op = "classify" =>
        LET matching == MatchingRules(fnOut.domain)
        IN  /\ fnOut.source_type \in SourceType
            /\ matching = {} => fnOut.source_type = "website"
            /\ \A i \in matching :
                  (\A j \in matching : i <= j) => fnOut.source_type = RuleCategory[i]
            /\ fnOut.domain = <<"d", "o", "c", "s", ".", "e", "x", "a", "m", "p", "l", "e", ".", "c", "o", "m">>
                  => fnOut.source_type = "docs"
            /\ fnOut.domain = <<"e", "x", "a", "m", "p", "l", "e", ".", "g", "o", "v">>
                  => fnOut.source_type = "gov"

\* a domain matching the docs rule and the e-commerce rule was classified
\* DOCS, and one matching three rules got the first of them
C18_Witness ==
    /\ fnOut.op = "classify"
    /\ \/ /\ MatchingRules(fnOut.domain) = { 6, 7 }
          /\ fnOut.source_type = "docs"
       \/ /\ Cardinality(MatchingRules(fnOut.domain)) >= 3
          /\ 1 \in MatchingRules(fnOut.domain)
          /\ fnOut.source_type = "gov"

\* C19: calculate_authority_score is the category's base score (GOV 90,
\* EDU 85, ACADEMIC 85, NEWS 75, DOCS 70, WEBSITE 50, ECOMMERCE 45,
\* SOCIAL 40, UNKNOWN 30) plus 10 when the domain contains an allowlisted
\* name, capped at 100, and lies in [0, 100]
C19_AuthorityScore ==
    fnOut.op = "classify" =>
        LET base == [ gov |-> 90, edu |-> 85, academic |-> 85, news |-> 75,
                      docs |-> 70, website |-> 50, ecommerce |-> 45,
                      social |-> 40, unknown |-> 30 ]
            bonus == IF \E name \in KnownHighAuthority :
                           Find(Lower(fnOut.domain), name) >= 0
                     THEN 10 ELSE 0
            capped(x) == IF x > 100 THEN 100 ELSE x
        IN  /\ fnOut.given_authority = capped(base[fnOut.given_type] + bonus)
            /\ fnOut.given_authority \in 0..100
            /\ fnOut.authority = capped(base[fnOut.source_type] + bonus)
            /\ fnOut.authority \in 0..100

\* an allowlisted name written with a capital letter earned the bonus, on a
\* GOV source (100) and on the domain's own category
C19_Witness ==
    /\ fnOut.op = "classify"
    /\ fnOut.domain # Lower(fnOut.domain)
    /\ fnOut.given_type = "gov"
    /\ fnOut.given_authority = 100
    /\ fnOut.authority = BaseScore(fnOut.source_type) + 10

----------------------------------------------------------------------------
(* Citation extraction (citation/service.py) *)

\* class CitationType
CitationType == { "url", "domain", "named", "implicit" }

\* urlparse(url).netloc of a URL that URL_PATTERN matched: what follows
\* "//" up to the first "/", "?" or "#"
UrlNetloc(url) ==
    LET p == Find(url, <<"/", "/">>)
        rest == Slice(url, p + 2, Len(url))
        stops == { i \in 1..Len(rest) : rest[i] \in { "/", "?", "#" } }
    IN  IF p < 0 THEN << >>
        ELSE IF stops = {} THEN rest
        ELSE SubSeq(rest, 1, (CHOOSE i \in stops : \A j \in stops : i <= j) - 1)

\* extract_domain_from_url; None is the empty string here, which the
\* callers treat alike ("if not domain", "or url")
extract_domain_from_url(url) ==
    IF UrlNetloc(url) # << >> THEN normalize_domain(UrlNetloc(url)) ELSE << >>

\* Citation(...) as the URL, DOMAIN and NAMED loops build it; confidence in
\* hundredths.  context and position are left out: they depend on the
\* text around the match only.
NewCitation(tbl, conversation_id, url, domain, name, type, authority, confidence, t) ==
    [ id |-> NextId(tbl),
      conversation_id |-> conversation_id,
      source_url |-> url,
      source_domain |-> domain,
      source_name |-> name,
      citation_type |-> type,
      authority_score |-> authority,
      confidence |-> confidence,
      created_at |-> t ]

SourceIndex(srcTbl, normalized) ==
    { i \in 1..Len(srcTbl) : srcTbl[i].normalized_domain = normalized }

_update_source_KeyByDomain(srcTbl, domain, t) ==
    LET normalized == normalize_domain(domain)
        found == { i \in 1..Len(srcTbl) : srcTbl[i].domain = domain }
    IN  IF found # {}
        THEN LET i == CHOOSE i \in found : TRUE
             IN  [ srcTbl EXCEPT ![i].citation_count = @ + 1,
                                 ![i].last_cited_at = t,
                                 ![i].updated_at = t ]
        ELSE Append(srcTbl,
               [ id |-> NextId(srcTbl),
                 domain |-> domain,
                 normalized_domain |-> normalized,
                 source_type |-> classify_source_type(domain),
                 authority_score |->
                     calculate_authority_score(domain, classify_source_type(domain)),
                 citation_count |-> 1,
                 first_cited_at |-> t,
                 last_cited_at |-> t,
                 created_at |-> t,
                 updated_at |-> t ])

_update_source_ResetScore(srcTbl, domain, t) ==
    LET normalized == normalize_domain(domain)
        found == SourceIndex(srcTbl, normalized)
    IN  IF found # {}
        THEN LET i == CHOOSE i \in found : TRUE
             IN  [ srcTbl EXCEPT ![i].citation_count = @ + 1,
                                 ![i].authority_score = 50,
                                 ![i].last_cited_at = t,
                                 ![i].updated_at = t ]
        ELSE Append(srcTbl,
               [ id |-> NextId(srcTbl),
                 domain |-> domain,
                 normalized_domain |-> normalized,
                 source_type |-> classify_source_type(domain),
                 authority_score |->
                     calculate_authority_score(domain, classify_source_type(domain)),
                 citation_count |-> 1,
                 first_cited_at |-> t,
                 last_cited_at |-> t,
                 created_at |-> t,
                 updated_at |-> t ])

\* CitationService._update_source and its flush.  The row found is updated
\* in place (updated_at by the column's onupdate); a new row gets the
\* column defaults.  normalized_domain is unique, so at most one row is found.
_update_source(srcTbl, domain, t) ==
    LET normalized == normalize_domain(domain)
        found == SourceIndex(srcTbl, normalized)
    IN  IF found # {}
        THEN LET i == CHOOSE i \in found : TRUE
             IN  [ srcTbl EXCEPT ![i].citation_count = @ + 1,
                                 ![i].last_cited_at = t,
                                 ![i].updated_at = t ]
        ELSE Append(srcTbl,
               [ id |-> NextId(srcTbl),
                 domain |-> domain,
                 normalized_domain |-> normalized,
                 source_type |-> classify_source_type(domain),
                 authority_score |->
                     calculate_authority_score(domain, classify_source_type(domain)),
                 citation_count |-> 1,
                 first_cited_at |-> t,
                 last_cited_at |-> t,
                 created_at |-> t,
                 updated_at |-> t ])

\* the loop over URL_PATTERN.finditer(text): acc holds the session's
\* citations and sources and the counter sources_updated
RECURSIVE ExtractUrls(_, _, _, _, _)
ExtractUrls(acc, urls, k, conversation_id, t) ==
    IF k > Len(urls) THEN acc
    ELSE LET domain == extract_domain_from_url(urls[k])
         IN  IF domain = << >>
             THEN ExtractUrls(acc, urls, k + 1, conversation_id, t)
             ELSE ExtractUrls(
                    [ citations |-> Append(acc.citations,
                          NewCitation(acc.citations, conversation_id, urls[k], domain,
                                      << >>, "url", 0, 95, t)),
                      sources |-> _update_source(acc.sources, domain, t),
                      sources_updated |-> acc.sources_updated + 1 ],
                    urls, k + 1, conversation_id, t)

\* the loop over DOMAIN_PATTERN.finditer(text); refs[k] is match.group(1)
RECURSIVE ExtractDomains(_, _, _, _, _)
ExtractDomains(acc, refs, k, conversation_id, t) ==
    IF k > Len(refs) THEN acc
    ELSE LET domain == normalize_domain(refs[k])
         IN  ExtractDomains(
               [ citations |-> Append(acc.citations,
                     NewCitation(acc.citations, conversation_id, << >>, domain,
                                 << >>, "domain", 0, 85, t)),
                 sources |-> _update_source(acc.sources, domain, t),
                 sources_updated |-> acc.sources_updated + 1 ],
               refs, k + 1, conversation_id, t)

\* the loop over NAMED_SOURCE_PATTERN.finditer(text); names[k] is
\* match.group(1)
RECURSIVE ExtractNamed(_, _, _, _, _)
ExtractNamed(acc, names, k, conversation_id, t) ==
    IF k > Len(names) THEN acc
    ELSE LET source_name == Strip(names[k])
         IN  IF Len(source_name) < 3 \/ Len(source_name) > 50
             THEN ExtractNamed(acc, names, k + 1, conversation_id, t)
             ELSE ExtractNamed(
                    [ acc EXCEPT !.citations = Append(@,
                          NewCitation(acc.citations, conversation_id, << >>, << >>,
                                      source_name, "named", 50, 70, t)) ],
                    names, k + 1, conversation_id, t)

\* CitationService.extract_citations_from_text.  text is given by what the
\* three finditer passes find in it: the URLs, the domains after a
\* "according to"/"from"/... prefix, and the names after such a prefix.
extract_citations_from_text(text, conversation_id) ==
    LET acc0 == [ citations |-> citations, sources |-> sources, sources_updated |-> 0 ]
    IN  \E final \in { ExtractNamed(
                         ExtractDomains(
                           ExtractUrls(acc0, text.urls, 1, conversation_id, now),
                           text.domains, 1, conversation_id, now),
                         text.names, 1, conversation_id, now) } :
        /\ citations' = final.citations                     \* db.commit()
        /\ sources' = final.sources
        /\ resp' = [ op |-> "extract_citations",
                     text |-> text,
                     citations_found |-> Len(final.citations) - Len(citations),
                     citations |-> SubSeq(final.citations, Len(citations) + 1,
                                          Len(final.citations)),
                     sources_updated |-> final.sources_updated ]
        /\ UNCHANGED << now, dbVars, analyses, fnIn, fnOut >>

----------------------------------------------------------------------------
(* Citation requests *)

MaxCitations == 5   \* citations stored before extraction stops being asked

Url_a == <<"h", "t", "t", "p", "s", ":", "/", "/", "w", "w", "w", ".", "a", ".", "i", "o", "/", "x">>
Url_A == <<"h", "t", "t", "p", ":", "/", "/", "A", ".", "i", "o">>
Url_wwwa == <<"h", "t", "t", "p", "s", ":", "/", "/", "w", "w", "w", ".", "w", "w", "w", ".", "a", ".", "i", "o">>
Url_gov == <<"h", "t", "t", "p", "s", ":", "/", "/", "e", "x", "a", "m", "p", "l", "e", ".", "g", "o", "v", "/">>
Url_nohost == <<"h", "t", "t", "p", "s", ":", "/", "/", "/", "x">>

Texts ==
    { [ urls |-> << Url_a, Url_A >>, domains |-> << >>, names |-> << >> ],
      [ urls |-> << Url_wwwa >>,
        domains |-> << <<"E", "x", "a", "m", "p", "l", "e", ".", "g", "o", "v">> >>,
        names |-> << <<"W", "i", "k", "i", "p", "e", "d", "i", "a">> >> ],
      [ urls |-> << Url_nohost >>,
        domains |-> << <<"w", "w", "w", ".", "a", ".", "i", "o">> >>,
        names |-> << <<"A", "B">> >> ],
      [ urls |-> << Url_gov >>, domains |-> << >>, names |-> << >> ] }

ExtractCitations ==
    \E text \in Texts :
        /\ Len(citations) + Len(text.urls) + Len(text.domains) + Len(text.names)
              <= MaxCitations
        /\ extract_citations_from_text(text, "None")

NextCitations == ExtractCitations \/ Tick

SpecCitations == Init /\ [][NextCitations]_vars

----------------------------------------------------------------------------
(* Citation properties *)

\* the URL and DOMAIN citations whose domain normalizes to the given one
CitationsOf(citTbl, normalized) ==
    { c \in 1..Len(citTbl) :
        /\ citTbl[c].citation_type \in { "url", "domain" }
        /\ normalize_domain(citTbl[c].source_domain) = normalized }

\* C16: after any sequence of extract_citations_from_text calls no two
\* CitationSource rows have the same normalized domain, every URL or DOMAIN
\* citation has its source row, and a row's citation_count is the number of
\* URL and DOMAIN citations of its normalized domain stored so far
C16_OneSourcePerDomain ==
    /\ \A i, j \in 1..Len(sources) :
          sources[i].normalized_domain = sources[j].normalized_domain => i = j
    /\ \A c \in 1..Len(citations) :
          citations[c].citation_type \in { "url", "domain" }
          => SourceIndex(sources, normalize_domain(citations[c].source_domain)) # {}
    /\ \A i \in 1..Len(sources) :
          sources[i].citation_count
            = Cardinality(CitationsOf(citations, sources[i].normalized_domain))

\* one source row counts three citations, URL and DOMAIN ones, extracted
\* from differently written hosts
C16_Witness ==
    \E i \in 1..Len(sources) :
        LET cited == CitationsOf(citations, sources[i].normalized_domain)
        IN  /\ sources[i].citation_count >= 3
            /\ \E c, e \in cited :
                  /\ citations[c].citation_type = "url"
                  /\ citations[e].citation_type = "domain"
                  /\ citations[c].source_domain # citations[e].source_domain

\* C17 as stated: a later citation of a domain changes nothing of its
\* CitationSource row but citation_count and last_cited_at
C17_OnlyCountAndLastCited ==
    [][ \A i \in 1..Len(sources) :
          /\ i <= Len(sources')
          /\ sources'[i] = [ sources[i] EXCEPT
                               !.citation_count = sources'[i].citation_count,
                               !.last_cited_at = sources'[i].last_cited_at ] ]_vars

\* C17, amended: a later citation of a domain leaves authority_score and
\* source_type of its CitationSource row as they were; citation_count,
\* last_cited_at and the row's updated_at are all that changes
C17_ScoreAndTypeKept ==
    [][ \A i \in 1..Len(sources) :
          /\ i <= Len(sources')
          /\ sources'[i].authority_score = sources[i].authority_score
          /\ sources'[i].source_type = sources[i].source_type
          /\ sources'[i].citation_count >= sources[i].citation_count
          /\ sources'[i] = [ sources[i] EXCEPT
                               !.citation_count = sources'[i].citation_count,
                               !.last_cited_at = sources'[i].last_cited_at,
                               !.updated_at = sources'[i].updated_at ] ]_vars

\* a GOV source first seen earlier was cited again later and still has its
\* first score
C17_Witness ==
    \E i \in 1..Len(sources) :
        /\ sources[i].citation_count >= 2
        /\ sources[i].last_cited_at > sources[i].first_cited_at
        /\ sources[i].source_type = "gov"
        /\ sources[i].authority_score = 90

\* C20: every URL or DOMAIN citation extract_citations_from_text returns
\* has the authority_score of the CitationSource of its domain, and every
\* NAMED citation has 50
C20_CitationCarriesSourceScore ==
    resp.op = "extract_citations" =>
        \A k \in 1..Len(resp.citations) :
            LET c == resp.citations[k]
            IN  /\ c.citation_type \in { "url", "domain" } =>
                      \E i \in SourceIndex(sources, normalize_domain(c.source_domain)) :
                          c.authority_score = sources[i].authority_score
                /\ c.citation_type = "named" => c.authority_score = 50

----------------------------------------------------------------------------
(* Website analysis (citation/service.py analyze_website) *)

\* a NULL completed_at (the column is nullable); no time is negative
NoTime == -1

\* class AnalysisStatus
AnalysisStatus == { "pending", "processing", "completed", "failed" }

CachedAnalyses_NoExpiry(tbl, domain, cache_cutoff) ==
    { i \in 1..Len(tbl) : tbl[i].domain = domain /\ tbl[i].status = "completed" }

\* the rows the cache query selects: same domain, COMPLETED, and
\* completed_at >= cache_cutoff
CachedAnalyses(tbl, domain, cache_cutoff) ==
    { i \in 1..Len(tbl) :
        /\ tbl[i].domain = domain
        /\ tbl[i].status = "completed"
        /\ tbl[i].completed_at # NoTime
        /\ tbl[i].completed_at >= cache_cutoff }

\* order_by(desc(completed_at)).limit(1): a row with the latest
\* completed_at; which one of several is not determined
LatestAnalyses(tbl, S) ==
    { i \in S : \A j \in S : tbl[j].completed_at <= tbl[i].completed_at }

\* WebsiteAnalysis(url, domain, depth, status=PROCESSING, progress=10)
NewAnalysis(tbl, url, domain, depth, t) ==
    [ id |-> NextId(tbl),
      url |-> url,
      domain |-> domain,
      depth |-> depth,
      status |-> "processing",
      progress |-> 10,
      error_message |-> "None",
      citation_count |-> 0,
      pages_analyzed |-> 0,
      started_at |-> t,
      completed_at |-> NoTime,
      created_at |-> t ]

\* the try block: the citations of the domain are counted (at most 100)
\* and the record is completed
AnalysisCompleted(analysis, citTbl, t) ==
    LET domain_citations ==
            { c \in 1..Len(citTbl) : citTbl[c].source_domain = analysis.domain }
        n == Cardinality(domain_citations)
    IN  [ analysis EXCEPT !.status = "completed",
                          !.progress = 100,
                          !.citation_count = IF n > 100 THEN 100 ELSE n,
                          !.pages_analyzed = 1,
                          !.completed_at = t ]

\* the except branch
AnalysisFailed(analysis, t) ==
    [ analysis EXCEPT !.status = "failed",
                      !.error_message = "str(e)",
                      !.completed_at = t ]

\* _build_analysis_response
AnalysisResponse(url, force_refresh, analysis) ==
    [ op |-> "analyze_website",
      url |-> url,
      force_refresh |-> force_refresh,
      id |-> analysis.id,
      domain |-> analysis.domain,
      status |-> analysis.status,
      progress |-> analysis.progress,
      citation_count |-> analysis.citation_count,
      completed_at |-> analysis.completed_at ]

\* CitationService.analyze_website; raises tells whether a statement of the
\* try block raised
analyze_website(url, depth, force_refresh, raises) ==
    LET extracted == extract_domain_from_url(url)
        domain == IF extracted # << >> THEN extracted ELSE url
        cached == IF force_refresh THEN {}
                  ELSE LatestAnalyses(analyses,
                                      CachedAnalyses(analyses, domain, now - DayLen))
    IN  IF cached # {}
        THEN /\ \E i \in cached :
                  resp' = AnalysisResponse(url, force_refresh, analyses[i])
             /\ UNCHANGED << citVars, now, dbVars, fnIn, fnOut >>
        ELSE LET analysis == NewAnalysis(analyses, url, domain, depth, now)
                 done == IF raises THEN AnalysisFailed(analysis, now)
                         ELSE AnalysisCompleted(analysis, citations, now)
             IN  /\ analyses' = Append(analyses, done)          \* db.commit()
                 /\ resp' = AnalysisResponse(url, force_refresh, done)
                 /\ UNCHANGED << citations, sources, now, dbVars, fnIn, fnOut >>

----------------------------------------------------------------------------
(* Analysis requests *)

MaxAnalyses == 2        \* analysis records stored before analyses stop
MaxAnalysisTime == 4    \* the clock stops here while analyses are requested

AnalyzeUrls == { Url_a, <<"a", ".", "i", "o">>, Url_gov }

AnalyzeWebsite ==
    \E url \in AnalyzeUrls, force_refresh \in BOOLEAN, raises \in BOOLEAN :
        /\ Len(analyses) < MaxAnalyses
        /\ analyze_website(url, 1, force_refresh, raises)

\* time passes between analysis requests
AnalysisTick ==
    /\ now < MaxAnalysisTime
    /\ now' = now + 1
    /\ UNCHANGED << citVars, dbVars, resp, fnIn, fnOut >>

NextAnalysis == AnalyzeWebsite \/ AnalysisTick

SpecAnalysis == Init /\ [][NextAnalysis]_vars

----------------------------------------------------------------------------
(* Analysis properties *)

\* the domain analyze_website looks a URL up under
AnalyzedDomain(url) ==
    IF extract_domain_from_url(url) # << >> THEN extract_domain_from_url(url) ELSE url

\* the COMPLETED analyses of the URL's domain completed in the last 24 hours
RecentCompleted(tbl, url, t) ==
    { i \in 1..Len(tbl) :
        /\ tbl[i].domain = AnalyzedDomain(url)
        /\ tbl[i].status = "completed"
        /\ tbl[i].completed_at \in (t - DayLen)..t }

----------------------------------------------------------------------------
(* _classify_mention as a function of its arguments *)

\* n full stops: text that holds no cue
Pad(n) == [ i \in 1..n |-> "." ]

\* what precedes the brand name: a cue (or none), then 0, 46 or 47 filler
\* characters, so that a three-letter cue ends 50 or 51 before the name
CuesBefore ==
    { <<>>, <<"t", "r", "y", " ">>, <<"v", "s", " ">>,
      <<"L", "i", "k", "e", " ">>, <<"a", "v", "o", "i", "d", " ">>,
      <<"B", "A", "D", " ">>,
      <<"n", "o", "t", " ", "r", "e", "c", "o", "m", "m", "e", "n", "d", " ">> }

TextsBefore == { cue \o Pad(n) : cue \in CuesBefore, n \in { 0, 46, 47 } }

\* what follows it: 1, 48 or 49 filler characters, then a cue (or none)
CuesAfter ==
    { <<>>, <<"v", "s">>, <<"T", "r", "y">>,
      <<"p", "r", "o", "b", "l", "e", "m">>,
      <<"b", "a", "d", " ", "v", "s">> }

TextsAfter == { Pad(n) \o cue : n \in { 1, 48, 49 }, cue \in CuesAfter }

MentionContents ==
    { before \o <<"A", "b">> \o after : before \in TextsBefore, after \in TextsAfter }

InitClassifyMention ==
    /\ InitDb
    /\ fnIn \in [ op : {"classify_mention"}, content : MentionContents,
                  brand_name : { <<"A", "b">>, <<"b">> } ]
    /\ fnOut = [ op |-> "none" ]

\* _extract_mentions' call: position is content.lower().find(name.lower())
ClassifyMention ==
    /\ fnIn.op = "classify_mention"
    /\ \E pos \in { FindName(fnIn.content, fnIn.brand_name) } :
          fnOut' = [ op |-> "classify_mention",
                     content |-> fnIn.content,
                     position |-> pos,
                     brand_name |-> fnIn.brand_name,
                     mention_type |->
                         classify_mention(fnIn.content, pos, fnIn.brand_name) ]
    /\ UNCHANGED << citVars, now, dbVars, resp, fnIn >>

SpecClassifyMention == InitClassifyMention /\ [][ClassifyMention]_vars

----------------------------------------------------------------------------
(* Mention classification properties *)

\* the cue lies within the 50 characters before the match, the match, and
\* the 50 characters after it; lowered is the content in lower case
CueInWindow(lowered, position, brand_name, cue) ==
    \E p \in (position - 50)..(position + Len(brand_name) + 50 - Len(cue)) :
        p >= 0 /\ OccursAt(lowered, cue, p)

CuesInWindow(lowered, position, brand_name, cues) ==
    \E i \in 1..Len(cues) : CueInWindow(lowered, position, brand_name, cues[i])

\* C21: the mention type is RECOMMENDATION when a recommendation cue lies in
\* the +-50 character window around the match, else COMPARISON when a
\* comparison cue does, else NEGATIVE when a negative cue does, else DIRECT;
\* it is never INDIRECT
C21_FirstCueSetWins ==
    fnOut.op = "classify_mention" =>
        \A lowered \in { Lower(fnOut.content) } :
            LET in(cues) == CuesInWindow(lowered, fnOut.position,
                                         fnOut.brand_name, cues)
            IN  /\ fnOut.mention_type # "indirect"
                /\ fnOut.mention_type =
                     IF in(recommend_patterns) THEN "recommendation"
                     ELSE IF in(compare_patterns) THEN "comparison"
                     ELSE IF in(negative_patterns) THEN "negative"
                     ELSE "direct"

\* a recommendation cue lies just outside the window, a comparison cue and
\* a negative cue inside it: COMPARISON
C21_Witness ==
    /\ fnOut.op = "classify_mention"
    /\ \E lowered \in { Lower(fnOut.content) } :
          /\ AnyIn(recommend_patterns, lowered)
          /\ CuesInWindow(lowered, fnOut.position, fnOut.brand_name, compare_patterns)
          /\ CuesInWindow(lowered, fnOut.position, fnOut.brand_name, negative_patterns)
    /\ fnOut.mention_type = "comparison"

\* C22: a mention with 'not recommend' in its window and no comparison cue
\* there is NEGATIVE
C22_NotRecommendIsNegative ==
    fnOut.op = "classify_mention" =>
        \A lowered \in { Lower(fnOut.content) } :
            (/\ CueInWindow(lowered, fnOut.position, fnOut.brand_name,
                            <<"n", "o", "t", " ", "r", "e", "c", "o", "m", "m", "e", "n", "d">>)
             /\ ~CuesInWindow(lowered, fnOut.position, fnOut.brand_name,
                              compare_patterns))
            => fnOut.mention_type = "negative"

----------------------------------------------------------------------------
(* Uploads with active and inactive brands *)

\* brands "Ab" (alias "b") and "c", each active or not
BrandTables ==
    { << [ NewBrand(<< >>, <<"A", "b">>, <<"a", "b">>, << <<"b">> >>, FALSE)
             EXCEPT !.is_active = act_ab ],
         [ NewBrand(<< [ id |-> 1 ] >>, <<"c">>, <<"c">>, << >>, FALSE)
             EXCEPT !.is_active = act_c ] >> : act_ab \in BOOLEAN, act_c \in BOOLEAN }

InitExtract ==
    /\ now = 0
    /\ brands \in BrandTables
    /\ groups = << >>
    /\ groupBrands = {}
    /\ conversations = << >>
    /\ messages = << >>
    /\ mentions = << >>
    /\ scores = << >>
    /\ citations = << >>
    /\ sources = << >>
    /\ analyses = << >>
    /\ resp = [ op |-> "none" ]
    /\ fnIn = [ op |-> "none" ]
    /\ fnOut = [ op |-> "none" ]

SpecExtract == InitExtract /\ [][UploadConversations]_vars

----------------------------------------------------------------------------
(* Mention extraction properties *)

\* the brand's name or one of its aliases occurs in the content, letter case
\* ignored
NamedIn(content, brand) ==
    \E n \in 1..Len(names_to_check(brand)) :
        Contains(Lower(content), Lower(names_to_check(brand)[n]))

\* C23: every stored BrandMention references a message of its conversation
\* whose stored role is assistant and a brand that is active; user and
\* system messages, also those whose unrecognised role became user, and
\* inactive brands have no mention
C23_AssistantAndActiveOnly ==
    /\ \A m \in 1..Len(mentions) :
          /\ \E k \in 1..Len(messages) :
                /\ messages[k].id = mentions[m].message_id
                /\ messages[k].conversation_id = mentions[m].conversation_id
                /\ messages[k].role = T_assistant
          /\ \E b \in 1..Len(brands) :
                /\ brands[b].name = mentions[m].brand_name
                /\ brands[b].normalized_name = mentions[m].brand_normalized
                /\ brands[b].is_active
    /\ \A k \in 1..Len(messages) :
          messages[k].role # T_assistant =>
              \A m \in 1..Len(mentions) : mentions[m].message_id # messages[k].id
    /\ \A b \in 1..Len(brands) :
          ~brands[b].is_active =>
              \A m \in 1..Len(mentions) :
                  mentions[m].brand_normalized # brands[b].normalized_name

\* a stored message of an unrecognised role names an active brand, a stored
\* assistant message names an inactive brand, and the only mentions are
\* those of the active brand in assistant messages
C23_Witness ==
    /\ resp.op = "upload"
    /\ mentions # << >>
    /\ \E i \in 1..Len(resp.items), j \in 1..3, k \in 1..Len(messages), b \in 1..Len(brands) :
          /\ j <= Len(resp.items[i].messages)
          /\ Lower(resp.items[i].messages[j].role) \notin MessageRole
          /\ messages[k].conversation_id = resp.items[i].id
          /\ messages[k].sequence = j - 1
          /\ messages[k].role = T_user
          /\ brands[b].is_active
          /\ NamedIn(messages[k].content, brands[b])
    /\ \E k \in 1..Len(messages), b \in 1..Len(brands) :
          /\ messages[k].role = T_assistant
          /\ ~brands[b].is_active
          /\ NamedIn(messages[k].content, brands[b])

----------------------------------------------------------------------------
(* calculate_daily_scores with a platform filter *)

\* VisibilityCalculator.calculate_daily_scores called for the first day
\* with platform None, CHATGPT or OTHER
CalculatePlatformScores ==
    /\ Len(scores) < MaxScoreRows
    /\ \E platform \in { << >>, T_chatgpt, T_other } :
          calculate_daily_scores(0, platform)

NextPlatformScores == UploadOneConversation \/ CalculatePlatformScores

SpecPlatformScores == InitExtract /\ [][NextPlatformScores]_vars

----------------------------------------------------------------------------
(* Score row properties *)

\* C24: every VisibilityScore row carries the four component scores
\* (frequency, position, sentiment, type) next to mention_count,
\* avg_position, avg_sentiment and conversation_count
C24_FourComponentScores ==
    \A i \in 1..Len(scores) :
        /\ { "frequency_score", "position_score", "sentiment_score", "type_score",
             "mention_count", "avg_position", "avg_sentiment", "conversation_count" }
              \subseteq DOMAIN scores[i]
        /\ scores[i].frequency_score \in 0..(100 * 100)
        /\ scores[i].position_score \in 0..(100 * 100)

\* the platform of the conversation a mention belongs to
PlatformOf(mention) ==
    LET c == CHOOSE i \in 1..Len(conversations) :
                 conversations[i].id = mention.conversation_id
    IN  conversations[c].platform

\* C25: a row written with platform filter p is that of a brand with at
\* least one mention that day in a conversation of platform p, and its
\* mention_count and conversation_count count the mentions and the
\* conversations of platform p only
C25_PlatformFilter ==
    [][ resp'.op = "calculate_daily_scores" =>
          \A i \in (Len(scores) + 1)..Len(scores') :
              LET row == scores'[i]
                  on_p == { m \in MentionsIn(row.brand_normalized, row.date,
                                             row.date + DayLen) :
                              PlatformOf(m) = row.platform }
                  convs_p == { c \in 1..Len(conversations) :
                                 /\ conversations[c].platform = row.platform
                                 /\ conversations[c].captured_at >= row.date
                                 /\ conversations[c].captured_at < row.date + DayLen }
              IN  row.platform # << >> =>
                      /\ on_p # {}
                      /\ row.mention_count = Cardinality(on_p)
                      /\ row.conversation_count
                           = (IF convs_p = {} THEN 1 ELSE Cardinality(convs_p)) ]_vars

----------------------------------------------------------------------------
(* _calculate_frequency_score as a function of the day's counts *)

FreqMentions == 0..12        \* mention_count of a brand
FreqConversations == 0..9    \* conversations counted for the day

InitFrequency ==
    /\ InitDb
    /\ fnIn \in [ op : {"frequency"}, mention_count : FreqMentions,
                  counted : FreqConversations ]
    /\ fnOut = [ op |-> "none" ]

\* calculate_daily_scores' use of the conversation count: floored, then
\* the rate denominator of the brand's frequency score; below is the score
\* of one mention fewer, unfloored that of the count as it was counted
FrequencyScore ==
    /\ fnIn.op = "frequency"
    /\ \E total \in { TotalConversations(fnIn.counted) } :
          fnOut' = [ op |-> "frequency",
                     mention_count |-> fnIn.mention_count,
                     counted |-> fnIn.counted,
                     total_conversations |-> total,
                     frequency_score |->
                         calculate_frequency_score(fnIn.mention_count, total),
                     below |->
                         IF fnIn.mention_count = 0 THEN 0
                         ELSE calculate_frequency_score(fnIn.mention_count - 1, total),
                     unfloored |->
                         calculate_frequency_score(fnIn.mention_count, fnIn.counted) ]
    /\ UNCHANGED << citVars, now, dbVars, resp, fnIn >>

SpecFrequency == InitFrequency /\ [][FrequencyScore]_vars

\* C26: the conversation count used as denominator is at least 1, the
\* frequency score lies in [0, 1], does not decrease when mention_count
\* grows with the denominator fixed, and is 1.0 whenever mention_count is
\* at least the conversation count; with a count of 0 passed as it is the
\* function returns 0 without dividing
C26_FrequencyScore ==
    fnOut.op = "frequency" =>
        /\ fnOut.total_conversations >= 1
        /\ fnOut.total_conversations >= fnOut.counted
        /\ fnOut.frequency_score \in 0..Scale
        /\ fnOut.below <= fnOut.frequency_score
        /\ fnOut.mention_count >= fnOut.total_conversations
              => fnOut.frequency_score = Scale
        /\ fnOut.mention_count = 0 => fnOut.frequency_score = 0
        /\ fnOut.unfloored \in 0..Scale
        /\ fnOut.counted = 0 => fnOut.unfloored = 0

\* no conversation was counted, the denominator became 1 and the brand's
\* mentions gave a score of 1.0; and a score strictly between 0 and 1 that
\* grew with the mention count
C26_Witness ==
    /\ fnOut.op = "frequency"
    /\ \/ /\ fnOut.counted = 0
          /\ fnOut.total_conversations = 1
          /\ fnOut.mention_count >= 1
          /\ fnOut.frequency_score = Scale
       \/ /\ fnOut.mention_count < fnOut.total_conversations
          /\ 0 < fnOut.below
          /\ fnOut.below < fnOut.frequency_score
          /\ fnOut.frequency_score < Scale

----------------------------------------------------------------------------
(* The two windows of _calculate_trend, for windows that start and end at
   any half day *)

WindowTimes == 0..(2 * DayLen)

InitTrendWindow ==
    /\ now = 0
    /\ brands = << >>
    /\ groups = << >>
    /\ groupBrands = {}
    /\ conversations = << >>
    /\ messages = << >>
    /\ mentions = << >>
    /\ scores \in TrendTables
    /\ citations = << >>
    /\ sources = << >>
    /\ analyses = << >>
    /\ resp = [ op |-> "none" ]
    /\ fnIn \in { w \in [ op : {"calculate_trend"}, start_date : WindowTimes,
                          end_date : WindowTimes ] :
                    w.start_date <= w.end_date }
    /\ fnOut = [ op |-> "none" ]

\* _calculate_trend(db, "ab", start_date, end_date)
CalculateTrend ==
    /\ fnIn.op = "calculate_trend"
    /\ \E t \in { calculate_trend(<<"a", "b">>, fnIn.start_date, fnIn.end_date) } :
          fnOut' = [ op |-> "calculate_trend",
                     start_date |-> fnIn.start_date,
                     end_date |-> fnIn.end_date,
                     direction |-> t.direction,
                     change |-> t.change,
                     current_avg |-> t.current_avg,
                     prev_avg |-> t.prev_avg ]
    /\ UNCHANGED << citVars, now, dbVars, resp, fnIn >>

SpecTrendWindow == InitTrendWindow /\ [][CalculateTrend]_vars

\* the scores of brand "ab" dated in [from, to)
ScoresWithin(from, to) ==
    { r \in Rows(scores) :
        /\ r.brand_normalized = <<"a", "b">>
        /\ r.date >= from
        /\ r.date < to }

\* C27 as stated: the current average is taken over the scores with
\* start <= date < end and the previous average over the scores with
\* start - (end - start) <= date < start, for every start and end
C27_AdjacentEqualWindows ==
    fnOut.op = "calculate_trend" =>
        /\ fnOut.current_avg = AvgScore(ScoresWithin(fnOut.start_date, fnOut.end_date))
        /\ fnOut.prev_avg =
              AvgScore(ScoresWithin(fnOut.start_date - (fnOut.end_date - fnOut.start_date),
                                    fnOut.start_date))

----------------------------------------------------------------------------
(* The score and the trend of a ranking item *)

\* the VisibilityScore rows of a brand dated within [start_date, end_date]
ScoresInWindow(bn, start_date, end_date) ==
    { i \in 1..Len(scores) :
        /\ scores[i].brand_normalized = bn
        /\ scores[i].date >= start_date
        /\ scores[i].date <= end_date }

\* C28 as stated: the score of each candidate is that of a most recent
\* VisibilityScore of the brand among those dated within [start_date,
\* end_date]; a score dated outside the window is never used, so a brand
\* with no score in the window gets the score made from its mention count
C28_LatestScoreWithinWindow ==
    resp.op = "get_ranking" =>
        \A k \in 1..Len(resp.all_brands) :
            \E within \in { ScoresInWindow(resp.all_brands[k], resp.start_date,
                                           resp.end_date) } :
                IF within = {}
                THEN resp.unsorted[k].score =
                        (IF resp.unsorted[k].mention_count * 500 > 10000 THEN 10000
                         ELSE resp.unsorted[k].mention_count * 500)
                ELSE \E i \in within :
                        /\ \A j \in within : scores[i].date >= scores[j].date
                        /\ resp.unsorted[k].score = scores[i].score

\* C29 as stated: the trend of each ranking item is the direction that
\* _calculate_trend gives for that brand over the query window
C29_TrendFromTrendEngine ==
    resp.op = "get_ranking" =>
        \A k \in 1..Len(resp.all_brands) :
            /\ resp.unsorted[k].trend \in { "up", "down", "stable" }
            /\ resp.unsorted[k].trend =
                  calculate_trend(resp.all_brands[k], resp.start_date,
                                  resp.end_date).direction

----------------------------------------------------------------------------
(* Uploading the id of a stored conversation *)

\* the rows of a table that belong to a conversation, in table order
RowsOf(tbl, conv_id) == SelectSeq(tbl, LAMBDA r : r.conversation_id = conv_id)

\* C30: an uploaded item whose id is that of a conversation the database
\* held when the call began leaves that conversation, its messages and its
\* mentions as they were, adds no message or mention for it, and the
\* response holds exactly one error for the item
C30_StoredConversationImmutable ==
    [][ resp'.op = "upload" =>
          \A k \in 1..Len(resp'.items) :
              \E id \in { resp'.items[k].id } :
                  HasConversation(conversations, id) =>
                      /\ SelectSeq(conversations', LAMBDA c : c.id = id)
                            = SelectSeq(conversations, LAMBDA c : c.id = id)
                      /\ RowsOf(messages', id) = RowsOf(messages, id)
                      /\ RowsOf(mentions', id) = RowsOf(mentions, id)
                      /\ Cardinality({ i \in 1..Len(resp'.errors) :
                                         resp'.errors[i].index = k }) = 1
                      /\ \A i \in 1..Len(resp'.errors) :
                            resp'.errors[i].index = k => resp'.errors[i].id = id
    ]_vars

\* the first item of a batch was refused for its id, and the conversation
\* of that id is stored with messages and a mention
C30_Witness ==
    /\ resp.op = "upload"
    /\ \E i \in 1..Len(resp.errors) :
          /\ resp.errors[i].index = 1
          /\ resp.errors[i].error = "IntegrityError"
          /\ HasConversation(conversations, resp.errors[i].id)
          /\ RowsOf(messages, resp.errors[i].id) # << >>
          /\ RowsOf(mentions, resp.errors[i].id) # << >>

====
